---- MODULE Spec2Model ----
(***************************************************************************)
(* The SJA1110 static-configuration scripts as state machines.             *)
(*                                                                         *)
(* A blob is a sequence of bytes (0..255).  A 32-bit value that may exceed *)
(* 2^31 - 1 is a word <<hi, lo>> of two 16-bit halves, so every 32-bit     *)
(* quantity keeps its exact width.  Offsets are 0-based as in the Python   *)
(* source; sequences are 1-based, so byte k of a blob is blob[k + 1].      *)
(***************************************************************************)
EXTENDS Integers, Sequences, FiniteSets, TLC

VARIABLES
    config_data,    \* SJA1110ProperConfig.config_data (bytearray)
    proper_ret,     \* last blob returned by generate_configuration
    proper_builds,  \* number of generate_configuration calls on the instance
    verify_ret,     \* verify_configuration(proper_ret): "True", "False", "none" before the call
    reg_config,     \* SJA1110Config.config_data: list of <<address, value>>
    reg_ret,        \* last binary returned by build_configuration
    reg_builds,     \* number of build_configuration calls on the instance
    v3_ret,         \* blob returned by FRERConfigV3.create_config
    switch_fw,      \* generate_complete_firmware: the assembled local buffer
    fw_ret,         \* generate_complete_firmware: the returned switch blob
    an_data,        \* BinaryAnalyzer.data
    an_pc,          \* position of analyze_switch_firmware
    an_offset,      \* analyze_switch_firmware: offset
    an_tables,      \* table headers the walk has reported, in order
    an_found,       \* tables analyze_frer_tables has reported, in order
    crc_data,       \* calculate_sja1110_crc: the argument
    crc_ret,        \* calculate_sja1110_crc: the returned word, <<>> before the call
    goldvip_ret,    \* blob returned by create_goldvip_switch_firmware
    fix_original,   \* SJA1110FinalFix: the bytes of the file at original_path
    fix_ret,        \* SJA1110FinalFix.create_switch_config: the returned blob, <<-1>> when it raised
    gold_file,      \* the GoldVIP sja1110_switch.bin, <<-1>> when there is no such file
    frer_file,      \* sja1110_switch_frer.bin, written by enable_frer_in_goldvip
    gold_ref,       \* the reference GoldVIP binary the last fix_goldvip_crc run found
    fixed_file,     \* sja1110_switch_frer_fixed.bin, written by fix_goldvip_crc
    fix_verify,     \* SJA1110FinalFix.verify_config(fix_ret): "True", "False", "none" before the call
    min_ret,        \* blob returned by SJA1110MinimalFRER.create_conservative_frer, <<-1>> when it raised
    plus_ret,       \* blob returned by SJA1110MinimalFRER.create_original_plus_frer_table
    s32g_in,        \* sja1110_ultrathink_switch.bin, the file fix_switch_firmware reads
    s32g_ret,       \* fix_switch_firmware: the returned data, <<-1>> when it raised
    seq_num,        \* FRERTester.seq_num
    calls,          \* number of create_frer_frame calls on the tester so far
    test_frame,     \* the frame the last create_frer_frame call returned
    shown_seq       \* <<n>> for the sequence number verify_replication printed, <<>> if the last call printed none

properVars == <<config_data, proper_ret, proper_builds, verify_ret>>
regVars == <<reg_config, reg_ret, reg_builds>>
fwVars == <<switch_fw, fw_ret>>
anVars == <<an_data, an_pc, an_offset, an_tables, an_found>>
crcVars == <<crc_data, crc_ret>>
fixVars == <<goldvip_ret, fix_original, fix_ret>>
goldVars == <<gold_file, frer_file, gold_ref, fixed_file>>
origVars == <<fix_verify, min_ret, plus_ret>>
s32gVars == <<s32g_in, s32g_ret>>
testVars == <<seq_num, calls, test_frame, shown_seq>>
vars == <<properVars, regVars, v3_ret, fwVars, anVars, crcVars, fixVars, goldVars, origVars, s32gVars, testVars>>

(***************************************************************************)
(* Bounds of the model.                                                    *)
(***************************************************************************)
\* calls of generate_configuration / build_configuration on one instance
MaxBuilds == 2
\* time.time() returns one of MaxTicks + 1 consecutive seconds
MaxTicks == 1
\* payload bytes after the 16-byte header in the inputs of the CRC function
MaxPayload == 3
\* table extents beyond any buffer length are recorded as this value
OffsetCap == 1073741824
\* entries per table in the files handed to the analyzer
MaxEntries == 2
\* create_frer_frame calls made on one FRERTester during a run
MaxCalls == 40

(***************************************************************************)
(* Bytes, words and struct.pack.                                           *)
(***************************************************************************)
BitXor(a, b, k) == k * ((((a \div k) % 2) + ((b \div k) % 2)) % 2)

NibXor == [a \in 0..15 |-> [b \in 0..15 |->
    BitXor(a, b, 1) + BitXor(a, b, 2) + BitXor(a, b, 4) + BitXor(a, b, 8)]]

XorTable == [a \in 0..255 |-> [b \in 0..255 |->
    (16 * NibXor[a \div 16][b \div 16]) + NibXor[a % 16][b % 16]]]

Xor8(a, b) == XorTable[a][b]

Xor16(a, b) == (256 * Xor8(a \div 256, b \div 256)) + Xor8(a % 256, b % 256)

XorW(v, w) == <<Xor16(v[1], w[1]), Xor16(v[2], w[2])>>

\* the word of an integer below 2^31
W(n) == <<n \div 65536, n % 65536>>

Zeros(n) == [i \in 1..n |-> 0]

Fill(n, b) == [i \in 1..n |-> b]

\* struct.pack('<H', v)
LE16(v) == <<v % 256, (v \div 256) % 256>>

\* struct.pack('<I', w) of a word
LE32w(w) == <<w[2] % 256, w[2] \div 256, w[1] % 256, w[1] \div 256>>

\* struct.pack('>I', w) of a word
BE32w(w) == <<w[1] \div 256, w[1] % 256, w[2] \div 256, w[2] % 256>>

\* struct.pack('<I', v), v below 2^31
LE32(v) == LE32w(W(v))

\* struct.pack('>I', v), v below 2^31
BE32(v) == BE32w(W(v))

\* struct.pack('>Q', v), v below 2^31
BE64(v) == Zeros(4) \o BE32(v)

\* struct.pack('<Q', ...) of a 48-bit value given as three 16-bit parts
LE64p(hi, mid, lo) == LE16(lo) \o LE16(mid) \o LE16(hi) \o <<0, 0>>

Min(a, b) == IF a < b THEN a ELSE b

\* buf[a:b] of Python, clamped to the buffer
Slice(buf, a, b) == SubSeq(buf, a + 1, Min(b, Len(buf)))

\* buf[a:] of Python
From(buf, a) == SubSeq(buf, a + 1, Len(buf))

\* buf[off:off+len(bytes)] = bytes, and struct.pack_into(fmt, buf, off, v)
Put(buf, off, bytes) == [i \in 1..Len(buf) |->
    IF (off < i) /\ (i <= off + Len(bytes)) THEN bytes[i - off] ELSE buf[i]]

\* struct.unpack('<I', buf[off:off+4])[0] as a word
RdLE32w(buf, off) == <<buf[off + 3] + (256 * buf[off + 4]), buf[off + 1] + (256 * buf[off + 2])>>

\* struct.unpack('<H', buf[off:off+2])[0]
RdLE16(buf, off) == buf[off + 1] + (256 * buf[off + 2])

\* the entries entry[0], ..., entry[n - 1], one after the other
RECURSIVE ConcatFrom(_, _, _)
ConcatFrom(f, p, n) == IF p >= n THEN <<>> ELSE f[p] \o ConcatFrom(f, p + 1, n)

Entries(entry, n) == ConcatFrom(entry, 0, n)

(***************************************************************************)
(* zlib.crc32: the CRC-32 of zlib (reflected polynomial 0xEDB88320, seed   *)
(* and final complement 0xFFFFFFFF), byte at a time over its table.        *)
(***************************************************************************)
CrcShift(w) == <<w[1] \div 2, (w[2] \div 2) + (32768 * (w[1] % 2))>>

CrcBit(w) == IF (w[2] % 2) = 1 THEN XorW(CrcShift(w), <<\hEDB8, \h8320>>) ELSE CrcShift(w)

RECURSIVE CrcBits(_, _)
CrcBits(w, n) == IF n = 0 THEN w ELSE CrcBits(CrcBit(w), n - 1)

CrcTable == [i \in 0..255 |-> LE32w(CrcBits(<<0, i>>, 8))]

\* (crc >> 8) ^ t on the four bytes of crc, low byte first
CrcMix(t, c) == <<Xor8(t[1], c[2]), Xor8(t[2], c[3]), Xor8(t[3], c[4]), t[4]>>

CrcByte(c, b) == CrcMix(CrcTable[Xor8(c[1], b)], c)

RECURSIVE CrcFold(_, _, _, _)
CrcFold(c, s, lo, hi) ==
    IF lo > hi THEN c
    ELSE IF lo = hi THEN CrcByte(c, s[lo])
    ELSE LET mid == (lo + hi) \div 2
             l == CrcFold(c, s, lo, mid)
         IN IF Len(l) = 4 THEN CrcFold(l, s, mid + 1, hi) ELSE l

\* the final complement, and the four bytes as a word
CrcFinal(r) == <<(255 - r[3]) + (256 * (255 - r[4])), (255 - r[1]) + (256 * (255 - r[2]))>>

zlib_crc32(s) == CrcFinal(CrcFold(<<255, 255, 255, 255>>, s, 1, Len(s)))

(***************************************************************************)
(* sja1110_proper_config.py: SJA1110ProperConfig                           *)
(***************************************************************************)
BLKID_VLAN_LOOKUP_TABLE == 7
BLKID_L2_FORWARDING_TABLE == 8
BLKID_MAC_CONFIG_TABLE == 9
BLKID_L2_FORWARDING_PARAMS_TABLE == 14
BLKID_GENERAL_PARAMS_TABLE == 17
BLKID_XMII_MODE_PARAMS_TABLE == 78
NUM_PORTS == 11
Proper_DEVICE_ID == <<\hB700, \h030F>>

add_table_header(table_id, entry_count, data_size) ==
    LE32(table_id) \o LE16(entry_count) \o LE16(data_size) \o LE32(0)

\* the generator port treated as any other port
Proper_reach_port_unscoped(port) == 2047

Proper_reach_port(port) == IF port = 4 THEN 12 ELSE 2047

Proper_bc_domain(port) == IF port = 4 THEN 12 ELSE 2047

Proper_l2_entry(port) == LE32(Proper_reach_port(port)) \o LE32(Proper_bc_domain(port))

Proper_create_l2_forwarding_table ==
    LET table_data == Entries([port \in 0..(NUM_PORTS - 1) |-> Proper_l2_entry(port)], NUM_PORTS)
    IN add_table_header(BLKID_L2_FORWARDING_TABLE, NUM_PORTS, Len(table_data)) \o table_data

Proper_mac_entry(port) ==
    LET base == Put(Put(Put(Zeros(32), 0, LE32(1)), 4, LE32(1)), 8, LE32(0))
    IN IF port \in {2, 3} THEN Put(base, 12, LE32w(<<\h8000, 0>>)) ELSE base

Proper_create_mac_config_table ==
    LET table_data == Entries([port \in 0..(NUM_PORTS - 1) |-> Proper_mac_entry(port)], NUM_PORTS)
    IN add_table_header(BLKID_MAC_CONFIG_TABLE, NUM_PORTS, Len(table_data)) \o table_data

Proper_create_l2_forwarding_params ==
    LET table_data == LE32(4095) \o LE32(1) \o LE32(0)
    IN add_table_header(BLKID_L2_FORWARDING_PARAMS_TABLE, 1, Len(table_data)) \o table_data

Proper_create_general_params ==
    LET params == Put(Put(Put(Put(Zeros(44), 0, LE32(1)), 8, LE32w(Proper_DEVICE_ID)),
                          16, LE32(384)), 20, LE32(384))
    IN add_table_header(BLKID_GENERAL_PARAMS_TABLE, 1, Len(params)) \o params

Proper_create_vlan_lookup_table ==
    LET table_data == LE16(1) \o LE16(2047) \o LE16(2047) \o LE16(0)
    IN add_table_header(BLKID_VLAN_LOOKUP_TABLE, 1, Len(table_data)) \o table_data

Proper_create_xmii_params ==
    LET table_data == LE32(0)
    IN add_table_header(BLKID_XMII_MODE_PARAMS_TABLE, 1, Len(table_data)) \o table_data

\* the device header generate_configuration appends (CRC field still zero)
Proper_device_header == LE32w(Proper_DEVICE_ID) \o LE32(256) \o LE32(0) \o LE32(0)

\* the tables generate_configuration appends, in its order
Proper_tables ==
    Proper_create_l2_forwarding_table \o Proper_create_mac_config_table
    \o Proper_create_l2_forwarding_params \o Proper_create_general_params
    \o Proper_create_vlan_lookup_table \o Proper_create_xmii_params

\* the copy taken without clearing the CRC field
config_with_old_crc(buf) == buf

\* config_without_crc: a copy of the buffer with bytes 12..15 cleared
config_without_crc(buf) == Put(buf, 12, Zeros(4))

\* generate_configuration: the new self.config_data, which is also returned
generate_configuration(cd) ==
    LET appended == cd \o Proper_device_header \o Proper_tables
        crc == zlib_crc32(config_without_crc(appended))
    IN Put(appended, 12, LE32w(crc))

\* config_check: verify_configuration's copy with bytes 12..15 cleared
config_check(config) == Put(config, 12, Zeros(4))

verify_configuration(config) ==
    LET crc_field == RdLE32w(config, 12)
        calc_crc == zlib_crc32(config_check(config))
    IN calc_crc = crc_field

(***************************************************************************)
(* analysis/sja1110_frer_config.py: SJA1110Config                          *)
(* config_data is a list of <<address, value>>, the value a word.          *)
(***************************************************************************)
PORT_P2A == 2
PORT_P2B == 3
PORT_P4 == 5
REG_GENERAL_CFG == 1048576
REG_PORT_CFG == 2097152
REG_FRER_CFG == 4194304
REG_STREAM_ID == 5242880
REG_SEQ_RECOVERY == 6291456

add_register(cd, address, value) == Append(cd, <<address, value>>)

RECURSIVE add_registers(_, _)
add_registers(cd, regs) ==
    IF regs = <<>> THEN cd
    ELSE add_registers(add_register(cd, regs[1][1], regs[1][2]), Tail(regs))

configure_general(cd) == add_registers(cd, <<
    <<REG_GENERAL_CFG + 0, <<\h0F03, \h00B7>> >>,
    <<REG_GENERAL_CFG + 4, W(6)>>,
    <<REG_GENERAL_CFG + 8, <<\hDC00, 0>> >>,
    <<REG_GENERAL_CFG + 12, <<\hE82C, \hE086>> >> >>)

configure_ports(cd) == add_registers(cd, <<
    <<REG_PORT_CFG + (PORT_P4 * 256), <<\h00EC, \hFFFF>> >>,
    <<REG_PORT_CFG + (PORT_P4 * 256) + 4, <<\h9FFF, \h7F00 + PORT_P4>> >>,
    <<REG_PORT_CFG + (PORT_P2A * 256), <<\h00EC, \hFFFF>> >>,
    <<REG_PORT_CFG + (PORT_P2A * 256) + 4, <<\h9FFF, \h7F00 + PORT_P2A>> >>,
    <<REG_PORT_CFG + (PORT_P2B * 256), <<\h00EC, \hFFFF>> >>,
    <<REG_PORT_CFG + (PORT_P2B * 256) + 4, <<\h9FFF, \h7F00 + PORT_P2B>> >> >>)

configure_frer_replication(cd) == add_registers(cd, <<
    <<REG_STREAM_ID + 0, <<\h8000, 1>> >>,
    <<REG_STREAM_ID + 4, W(2 ^ PORT_P4)>>,
    <<REG_STREAM_ID + 8, <<\hFFFF, \hFFFF>> >>,
    <<REG_STREAM_ID + 12, W(1)>>,
    <<REG_FRER_CFG + 0, <<\h8000, 1>> >>,
    <<REG_FRER_CFG + 4, W(3)>>,
    <<REG_FRER_CFG + 16, W(2 ^ PORT_P2A)>>,
    <<REG_FRER_CFG + 20, W(2 ^ PORT_P2B)>>,
    <<REG_FRER_CFG + 32, <<1, 0>> >>,
    <<REG_FRER_CFG + 36, <<0, \hFFFF>> >>,
    <<REG_FRER_CFG + 48, <<\hF1CD, 0>> >>,
    <<REG_FRER_CFG + 52, W(1)>> >>)

configure_forwarding_table(cd) == add_registers(cd, <<
    <<3145728, W((2 ^ PORT_P2A) + (2 ^ PORT_P2B))>>,
    <<3145732, W(2 ^ PORT_P4)>> >>)

configure_sequence_recovery(cd) == add_registers(cd, <<
    <<REG_SEQ_RECOVERY + 0, <<\h8000, 1>> >>,
    <<REG_SEQ_RECOVERY + 4, W(256)>>,
    <<REG_SEQ_RECOVERY + 8, W(1000)>>,
    <<REG_SEQ_RECOVERY + 16, W(4096)>>,
    <<REG_SEQ_RECOVERY + 20, <<\h9000, 0>> >> >>)

reg_entry_bytes(cd) == [i \in 1..(8 * Len(cd)) |->
    LET e == cd[((i - 1) \div 8) + 1]
        k == (i - 1) % 8
    IN IF k < 4 THEN BE32(e[1])[k + 1] ELSE BE32w(e[2])[k - 3]]

generate_binary(cd) ==
    LET header == BE32w(<<\h0F03, \h00B7>>) \o BE32(6) \o BE32(Len(cd))
                  \o BE32w(<<\hE82C, \hE086>>)
        config_bytes == reg_entry_bytes(cd)
        pad == (16 - (Len(config_bytes) % 16)) % 16
    IN header \o config_bytes \o Zeros(pad)

\* build_configuration: the new self.config_data
build_registers(cd) ==
    configure_sequence_recovery(configure_forwarding_table(
        configure_frer_replication(configure_ports(configure_general(cd)))))

BuildConfiguration ==
    /\ reg_builds < MaxBuilds
    /\ reg_config' = build_registers(reg_config)
    /\ reg_ret' = generate_binary(reg_config')
    /\ reg_builds' = reg_builds + 1
    /\ UNCHANGED <<properVars, v3_ret, fwVars, anVars, crcVars, fixVars, goldVars, origVars, s32gVars, testVars>>

(***************************************************************************)
(* analysis/sja1110_proper_frer_config.py: FRERConfigV3                    *)
(***************************************************************************)
create_table_header(block_id, crc, entry_count) ==
    LE32(block_id) \o LE32(entry_count) \o LE32(crc)

V3_reach(port) == IF port = 4 THEN 12 ELSE 2047

V3_bcast(port) == IF port = 4 THEN 12 ELSE 2047

V3_l2_entry(port) == LE32(V3_reach(port)) \o LE32(V3_bcast(port))

V3_mac_entry(port) == Put(Put(Zeros(32), 0, LE32(3)), 4, LE32(1000))

V3_create_config ==
    LET config == BE32w(<<\hB700, \h030F>>) \o BE32(6) \o BE32(0) \o BE32(0)
                  \o create_table_header(8, 0, 11) \o Entries([port \in 0..10 |-> V3_l2_entry(port)], 11)
                  \o create_table_header(9, 0, 11) \o Entries([port \in 0..10 |-> V3_mac_entry(port)], 11)
        padded == IF Len(config) < 2236 THEN config \o Zeros(2236 - Len(config)) ELSE config
    IN Slice(padded, 0, 2236)

CreateConfigV3 ==
    /\ v3_ret' = V3_create_config
    /\ UNCHANGED <<properVars, regVars, fwVars, anVars, crcVars, fixVars, goldVars, origVars, s32gVars, testVars>>

(***************************************************************************)
(* sja1110_ultrathink_frer.py: SJA1110FRERFirmware                         *)
(***************************************************************************)
FRER_DEVICE_ID == <<\hB700, \h030E>>
TABLE_L2_FORWARDING == 8
TABLE_MAC_CONFIG == 9
TABLE_GENERAL_PARAMS == 17
TABLE_FRER_STREAM_IDENT == 32
TABLE_FRER_SEQUENCE_ENCODE == 35
TABLE_FRER_SEQUENCE_RECOVERY == 37
VECTOR_ALGORITHM == 0
SPEED_100M == 100
SPEED_1000M == 1000

RECURSIVE PutAll(_, _)
PutAll(buf, ps) ==
    IF ps = <<>> THEN buf ELSE PutAll(Put(buf, ps[1][1], ps[1][2]), Tail(ps))

\* the times time.time() may return
Timestamps == {1700000000 + i : i \in 0..MaxTicks}

create_device_header(now) ==
    BE32w(FRER_DEVICE_ID) \o BE32(16) \o BE64(now) \o BE32(1 + 2 + 4 + 8 + 16) \o Zeros(16)

\* what every create_*_table does: the 16-byte table header, the entries,
\* then the CRC of table[16:] written at offset 12
\* crc = zlib.crc32(table[16:]); struct.pack_into('<I', table, 12, crc)
FRER_table_crc(table) == Put(table, 12, LE32w(zlib_crc32(From(table, 16))))

FRER_table(table_id, entry_count, entry_size, entry) ==
    FRER_table_crc(LE32(table_id) \o LE32(entry_count) \o LE32(entry_size) \o LE32(0)
                   \o Entries(entry, entry_count))

stream_ident_entry(stream_id) == PutAll(Zeros(32), <<
    <<0, LE16(stream_id)>>,
    <<2, <<3>> >>,
    <<3, <<stream_id % 8>> >>,
    <<4, IF stream_id < 4 THEN <<0, 17, 34, 51, 68, stream_id>> ELSE Zeros(6)>>,
    <<10, LE16(100 + stream_id)>>,
    <<12, <<1, 0, 94, 0, 0, stream_id>> >>,
    <<18, LE16(\h88F7)>>,
    <<20, LE16(IF stream_id < 4 THEN 2047 ELSE 30)>>,
    <<22, <<IF stream_id < 4 THEN 7 ELSE 3>> >> >>)

create_frer_stream_identification_table ==
    FRER_table(TABLE_FRER_STREAM_IDENT, 16, 32,
        [i \in 0..(16 - 1) |-> stream_ident_entry(i)])

replication_mask(stream_id) == IF stream_id < 8 THEN 12 ELSE 0

sequence_generation_entry(stream_id) == PutAll(Zeros(24), <<
    <<0, LE16(stream_id)>>,
    <<2, <<VECTOR_ALGORITHM>> >>,
    <<4, LE16(65535)>>,
    <<6, LE16(0)>>,
    <<8, <<18>> >>,
    <<10, LE16(replication_mask(stream_id))>>,
    <<12, LE32(1000)>>,
    <<16, <<0, 1>> >> >>)

create_frer_sequence_generation_table ==
    FRER_table(TABLE_FRER_SEQUENCE_ENCODE, 16, 24,
        [i \in 0..(16 - 1) |-> sequence_generation_entry(i)])

\* a recovery entry that references the stream after its own
sequence_recovery_entry_shifted(stream_id) == PutAll(Zeros(48), <<
    <<0, LE16(stream_id + 1)>>,
    <<4, LE16(256)>>,
    <<8, LE32(100000)>> >>)

sequence_recovery_entry(stream_id) == PutAll(Zeros(48), <<
    <<0, LE16(stream_id)>>,
    <<2, <<VECTOR_ALGORITHM>> >>,
    <<4, LE16(256)>>,
    <<8, LE32(100000)>>,
    <<12, <<1, 1>> >>,
    <<16, LE32(1000000)>>,
    <<20, LE32(4096 + (stream_id * 64))>>,
    <<24, LE16(5)>>,
    <<26, LE16(IF stream_id < 8 THEN 3 ELSE 0)>>,
    <<32, Fill(8, 255)>> >>)

create_frer_sequence_recovery_table ==
    FRER_table(TABLE_FRER_SEQUENCE_RECOVERY, 16, 48,
        [i \in 0..(16 - 1) |-> sequence_recovery_entry(i)])

\* port_configs: speed, enabled, frer
port_configs == [port_id \in 0..10 |->
    [speed |-> IF port_id \in {5, 6} THEN SPEED_100M ELSE SPEED_1000M,
     enabled |-> port_id <= 6,
     frer |-> port_id \in 1..4]]

port_configuration_entry(port_id) ==
    LET config == port_configs[port_id]
    IN PutAll(Zeros(64), <<
        <<0, <<port_id>> >>,
        <<1, <<IF config.enabled THEN 1 ELSE 0>> >>,
        <<2, LE16(config.speed)>>,
        <<4, <<1>> >>,
        <<5, <<IF config.frer THEN 1 ELSE 0>> >>,
        <<6, <<1>> >>,
        <<7, <<IF config.speed >= SPEED_1000M THEN 1 ELSE 0>> >>,
        <<8, LE16(1522)>>,
        <<10, LE16(1)>>,
        <<12, <<8>> >>,
        <<16, LE32(0)>>,
        <<20, LE32(0)>>,
        <<24, IF config.frer THEN <<14>> ELSE <<0>> >>,
        <<25, IF config.frer /\ port_id = 3 THEN <<1>>
              ELSE IF config.frer /\ port_id = 4 THEN <<255>> ELSE <<0>> >> >>)

create_port_configuration_table ==
    FRER_table(TABLE_MAC_CONFIG, 11, 64,
        [i \in 0..(11 - 1) |-> port_configuration_entry(i)])

\* forwarding_rules: the reachable mask of each port
FRER_reachable(port) ==
    CASE port = 0 -> \h7FE
      [] port = 1 -> \h7FD
      [] port = 2 -> \h7FB
      [] port = 3 -> \h7F7
      [] port = 4 -> \h00C
      [] port = 5 -> \h7EF
      [] port = 6 -> \h7DF
      [] OTHER -> 0

\* forwarding_rules: the broadcast mask of each port
FRER_broadcast(port) ==
    CASE port = 0 -> \h7FE
      [] port = 1 -> \h7FD
      [] port = 2 -> \h001
      [] port = 3 -> \h001
      [] port = 4 -> \h00C
      [] port = 5 -> \h7EF
      [] port = 6 -> \h7DF
      [] OTHER -> 0

FRER_l2_entry(port) == PutAll(Zeros(16), <<
    <<0, LE16(FRER_reachable(port))>>,
    <<2, LE16(FRER_broadcast(port))>>,
    <<4, LE16(1)>>,
    <<6, <<15>> >> >>)

FRER_create_l2_forwarding_table ==
    FRER_table(TABLE_L2_FORWARDING, 11, 16,
        [i \in 0..(11 - 1) |-> FRER_l2_entry(i)])

general_parameters_entry(i) == PutAll(Zeros(128), <<
    <<0, LE64p(\h0011, \h2233, \h4455)>>,
    <<8, <<255, 0, 255, 1>> >>,
    <<12, LE32(8)>>,
    <<16, LE32(300)>>,
    <<20, LE32(300)>>,
    <<24, LE32(1 + 2 + 4 + 8 + 16 + 32)>>,
    <<32, <<1, 16, 8>> >>,
    <<36, LE16(\hF1C1)>> >>)

create_general_parameters_table ==
    FRER_table(TABLE_GENERAL_PARAMS, 1, 128,
        [i \in 0..(1 - 1) |-> general_parameters_entry(i)])

\* the six tables generate_complete_firmware appends, in its order
FRER_tables == <<create_general_parameters_table, create_port_configuration_table,
    FRER_create_l2_forwarding_table, create_frer_stream_identification_table,
    create_frer_sequence_generation_table, create_frer_sequence_recovery_table>>

\* the tables one after the other
RECURSIVE extend_all(_, _)
extend_all(fw, tables) ==
    IF tables = <<>> THEN fw ELSE extend_all(fw \o Head(tables), Tail(tables))

FRER_table_bytes == extend_all(<<>>, FRER_tables)

\* generate_complete_firmware: switch_fw after the padding step
\* if len(switch_fw) < 2236: switch_fw.extend(bytes(2236 - len(switch_fw)))
pad_switch_fw(fw) == IF Len(fw) < 2236 THEN fw \o Zeros(2236 - Len(fw)) ELSE fw

assemble_switch_fw(now) == pad_switch_fw(create_device_header(now) \o FRER_table_bytes)

\* generate_complete_firmware: the switch blob it returns
returned_switch_fw(fw) == Slice(fw, 0, 2236)

GenerateCompleteFirmware ==
    \E now \in Timestamps :
        /\ switch_fw' = assemble_switch_fw(now)
        /\ fw_ret' = returned_switch_fw(switch_fw')
        /\ UNCHANGED <<properVars, regVars, v3_ret, anVars, crcVars, fixVars, goldVars, origVars, s32gVars, testVars>>

(***************************************************************************)
(* source/analyze_ultrathink_frer.py: BinaryAnalyzer                       *)
(***************************************************************************)
\* a 32-bit field as a number, recorded as OffsetCap from OffsetCap on
WordCap(w) == IF w[1] >= 16384 THEN OffsetCap ELSE Min((w[1] * 65536) + w[2], OffsetCap)

\* a * b, recorded as OffsetCap from OffsetCap on
MulCap(a, b) ==
    IF (a = 0) \/ (b = 0) THEN 0
    ELSE IF a > (OffsetCap \div b) THEN OffsetCap ELSE Min(a * b, OffsetCap)

\* the table header the walk reads at `offset`
table_header_at(data, offset) ==
    [table_id |-> RdLE32w(data, offset),
     entry_count |-> RdLE32w(data, offset + 4),
     entry_size |-> RdLE32w(data, offset + 8),
     crc |-> RdLE32w(data, offset + 12)]

\* the extent of the entries alone, without the 16 header bytes
table_size_no_header(h) == MulCap(WordCap(h.entry_count), WordCap(h.entry_size))

\* table_size = 16 + (entry_count * entry_size)
table_size(h) == 16 + MulCap(WordCap(h.entry_count), WordCap(h.entry_size))

\* "Show first entry as sample": the bytes the walk prints for a table with
\* entry_count > 0 and entry_size > 0, <<-1>> when it prints none
first_entry(data, offset, h) ==
    IF (WordCap(h.entry_count) > 0) /\ (WordCap(h.entry_size) > 0)
    THEN Slice(data, offset + 16, offset + 16 + Min(WordCap(h.entry_size), 32))
    ELSE <<-1>>

\* main(): the analyzer loads the switch file the generator wrote
LoadFile ==
    /\ fw_ret # <<>>
    /\ an_data' = fw_ret
    /\ an_pc' = "loaded"
    /\ an_offset' = 0
    /\ an_tables' = <<>>
    /\ an_found' = <<>>
    /\ UNCHANGED <<properVars, regVars, v3_ret, fwVars, crcVars, fixVars, goldVars, origVars, s32gVars, testVars>>

\* analyze_switch_firmware up to the table walk: the device header is
\* read and reported, then offset = 48
AnalyzeSwitchFirmware ==
    /\ an_pc = "loaded"
    /\ Len(an_data) >= 20
    /\ an_pc' = "walk"
    /\ an_offset' = 48
    /\ an_tables' = <<>>
    /\ an_found' = <<>>
    /\ UNCHANGED <<an_data, properVars, regVars, v3_ret, fwVars, crcVars, fixVars, goldVars, origVars, s32gVars, testVars>>

\* one pass of the while loop; the walk ends in "frer", where
\* analyze_frer_tables is called
WalkStep ==
    /\ an_pc = "walk"
    /\ IF ~(an_offset < Len(an_data) - 16)
       THEN /\ an_pc' = "frer"
            /\ UNCHANGED <<an_offset, an_tables>>
       ELSE LET h == table_header_at(an_data, an_offset)
            IN IF h.table_id \in {<<0, 0>>, <<\hFFFF, \hFFFF>>}
               THEN /\ an_pc' = "frer"
                    /\ UNCHANGED <<an_offset, an_tables>>
               ELSE /\ an_tables' = Append(an_tables,
                           [offset |-> an_offset, table_id |-> h.table_id,
                            entry_count |-> h.entry_count, entry_size |-> h.entry_size,
                            first_entry |-> first_entry(an_data, an_offset, h)])
                    /\ an_offset' = an_offset + table_size(h)
                    /\ an_pc' = IF an_offset' >= Len(an_data) - 16 THEN "frer" ELSE "walk"
    /\ UNCHANGED <<an_data, an_found, properVars, regVars, v3_ret, fwVars, crcVars, fixVars, goldVars, origVars, s32gVars, testVars>>

\* parse_stream_ident_table / parse_seq_gen_table / parse_seq_recovery_table:
\* how many entries the loop reads (min(3, n) or min(2, n)) and the last
\* byte offset, relative to the entry, that one pass reads
parse_limit(table_id) == IF table_id = TABLE_FRER_STREAM_IDENT THEN 3 ELSE 2

parse_reach(table_id) ==
    IF table_id = TABLE_FRER_STREAM_IDENT THEN 4
    ELSE IF table_id = TABLE_FRER_SEQUENCE_ENCODE THEN 6 ELSE 12

\* the passes of a parse loop from pass i on: the u16 at the start of each
\* entry read, or <<-1>> once a read runs past the end of the data
\* (struct.error / IndexError, which nothing catches)
RECURSIVE parse_entries(_, _, _, _, _, _)
parse_entries(data, entry_offset, entry_size, reach, i, n) ==
    IF i >= n THEN <<>>
    ELSE IF entry_offset + reach > Len(data) THEN <<-1>>
    ELSE <<RdLE16(data, entry_offset)>>
         \o parse_entries(data, Min(entry_offset + entry_size, OffsetCap),
                          entry_size, reach, i + 1, n)

parse_table(data, offset, table_id) ==
    [offset |-> offset, table_id |-> table_id,
     entry_count |-> RdLE32w(data, offset + 4),
     entries |-> parse_entries(data, offset + 16, WordCap(RdLE32w(data, offset + 8)),
                               parse_reach(table_id), 0,
                               Min(parse_limit(table_id), WordCap(RdLE32w(data, offset + 4))))]

crashed(found) ==
    (found # <<>>) /\ (found[Len(found)].entries # <<>>)
    /\ (found[Len(found)].entries[Len(found[Len(found)].entries)] = -1)

\* analyze_frer_tables: the scan from offset 48 in steps of 4; it ends with
\* the table on which a parse function raised, if one did
RECURSIVE frer_scan(_, _, _)
frer_scan(data, offset, found) ==
    IF ~(offset < Len(data) - 16) \/ crashed(found) THEN found
    ELSE frer_scan(data, offset + 4,
             IF RdLE32w(data, offset) \in {W(TABLE_FRER_STREAM_IDENT),
                    W(TABLE_FRER_SEQUENCE_ENCODE), W(TABLE_FRER_SEQUENCE_RECOVERY)}
             THEN Append(found, parse_table(data, offset, RdLE32w(data, offset)[2]))
             ELSE found)

AnalyzeFrerTables ==
    /\ an_pc = "frer"
    /\ an_found' = frer_scan(an_data, 48, <<>>)
    /\ an_pc' = IF crashed(an_found') THEN "crashed" ELSE "done"
    /\ UNCHANGED <<an_data, an_offset, an_tables, properVars, regVars, v3_ret, fwVars, crcVars, fixVars, goldVars, origVars, s32gVars, testVars>>

(***************************************************************************)
(* sja1110_goldvip_fix.py: create_goldvip_switch_firmware                  *)
(***************************************************************************)
\* the words appended before the fill, in order
goldvip_fields == <<
    <<\h0F03, \h00B7>>, <<0, \h0086>>, <<\hDD10, 0>>, <<\h86E0, \h2CE8>>,
    <<\hFFFF, 0>>, <<\h007F, \hFF9F>>, <<\h9F7F, \hFF84>>, <<0, 0>>,
    <<\hFFFF, 0>>, <<\h007F, \hFF9F>>, <<\h9F7F, \hFF86>>, <<0, 0>>,
    <<\hFFFF, 0>>, <<\h007F, \hFF9F>>, <<\h9F7F, \hFF48>>, <<0, 0>>,
    <<0, 4>>, <<0, 12>>,
    <<\hFFFF, \hFFFF>>, <<\hFFFF, \hFFFF>>, <<0, 1>>, <<0, 12>>,
    <<0, 1>>, <<0, \h07FF>>, <<0, \h001C>>,
    <<0, 1>>, <<0, \h0010>>, <<0, 12>>, <<\hC1F1, 0>>, <<0, \h0100>>,
    <<0, 4>>, <<0, 12>>, <<\hFFFF, \hFFFF>>, <<0, 7>> >>

config_pattern == <<
    <<\h00EC, \hFFFF>>, <<\h9FFF, \h7F00>>,
    <<\h00EC, \hFFFF>>, <<\h9FFF, \h7F02>>,
    <<\h00EC, \hFFFF>>, <<\h9FFF, \h7F04>>,
    <<\h00EC, \hFFFF>>, <<\h9FFF, \h7F06>> >>

GOLDVIP_SIZE == 2236

RECURSIVE pack_words(_, _)
pack_words(ws, i) == IF i > Len(ws) THEN <<>> ELSE LE32w(ws[i]) \o pack_words(ws, i + 1)

\* while len(fw) < 2236: fw += struct.pack('<I', config_pattern[pattern_idx % 8]);
\* the loop runs goldvip_fill_count(fw) times, pattern_idx counting from 0
goldvip_fill_count(fw) ==
    IF Len(fw) < GOLDVIP_SIZE THEN ((GOLDVIP_SIZE - Len(fw)) + 3) \div 4 ELSE 0

goldvip_fill_byte(k) ==
    LE32w(config_pattern[((k \div 4) % Len(config_pattern)) + 1])[(k % 4) + 1]

goldvip_fill(fw) ==
    fw \o [i \in 1..(4 * goldvip_fill_count(fw)) |-> goldvip_fill_byte(i - 1)]

create_goldvip_switch_firmware ==
    Slice(goldvip_fill(pack_words(goldvip_fields, 1)), 0, GOLDVIP_SIZE)

(***************************************************************************)
(* old_versions/sja1110_final_fix.py: SJA1110FinalFix                      *)
(***************************************************************************)
SJA1110_HARDWARE_ID == <<\hB700, \h030F>>

SWITCH_CONFIG_SIZE == 2236

BitOr(a, b, k) == k * (IF (((a \div k) % 2) + ((b \div k) % 2)) > 0 THEN 1 ELSE 0)

RECURSIVE Or16(_, _, _)
Or16(a, b, k) == IF k > 32768 THEN 0 ELSE BitOr(a, b, k) + Or16(a, b, 2 * k)

OrW(v, w) == <<Or16(v[1], w[1], 1), Or16(v[2], w[2], 1)>>

\* buf[a:b] = bytes on a bytearray: the slice is clamped to the buffer, so
\* the bytes are inserted at its end when a lies past it
PutSlice(buf, a, b, bytes) ==
    Slice(buf, 0, Min(a, Len(buf))) \o bytes \o From(buf, Min(b, Len(buf)))

\* check_original and the Device ID branch of create_switch_config
fix_device_id(original) ==
    IF RdLE32w(original, 0) = SJA1110_HARDWARE_ID
    THEN original
    ELSE PutSlice(original, 0, 4, LE32w(SJA1110_HARDWARE_ID))

\* val |= mask; config[offset+4:offset+8] = struct.pack('<I', val)
fix_port_value(config, offset, val) ==
    IF (val[2] % 256) = 8
    THEN PutSlice(config, offset + 4, offset + 8, LE32w(OrW(val, <<0, 12>>)))
    ELSE IF (val[2] % 256) \in {4, 6}
         THEN PutSlice(config, offset + 4, offset + 8, LE32w(OrW(val, <<\h8000, 0>>)))
         ELSE config

fix_port(config, offset) ==
    IF RdLE32w(config, offset) \in {<<\hFFFF, \hEC00>>, <<\h00EC, \hFFFF>>}
    THEN fix_port_value(config, offset, RdLE32w(config, offset + 4))
    ELSE config

\* for offset in range(0x10, min(0x200, len(config)), 8)
RECURSIVE fix_ports(_, _)
fix_ports(config, offset) ==
    IF offset >= Min(512, Len(config))
    THEN config
    ELSE fix_ports(IF offset + 8 <= Len(config) THEN fix_port(config, offset) ELSE config,
                   offset + 8)

\* a variant that takes the checksum over the whole buffer
fix_crc_whole(config) == PutSlice(config, 12, 16, LE32w(zlib_crc32(config)))

\* crc = zlib.crc32(config[16:]); config[12:16] = struct.pack('<I', crc)
fix_crc(config) == PutSlice(config, 12, 16, LE32w(zlib_crc32(From(config, 16))))

\* struct.unpack of original[0:4] raises on a file shorter than 4 bytes
create_switch_config(original) ==
    IF Len(original) < 4
    THEN <<-1>>
    ELSE fix_crc(Slice(fix_ports(fix_device_id(original), 16), 0, SWITCH_CONFIG_SIZE))

(***************************************************************************)
(* source/sja1110_frer_enabler.py: enable_frer_in_goldvip                  *)
(* A file is its bytes; NoFile stands for a file that does not exist, and  *)
(* for the result of a run that raised before it wrote anything.           *)
(***************************************************************************)
NoFile == <<-1>>

\* config1 | 0x00000080 into switch_data[4:8], config2 | 0x00030000 into [8:12]
frer_set_config(switch_data) ==
    Put(Put(switch_data, 4, LE32w(OrW(RdLE32w(switch_data, 4), <<0, 128>>))),
        8, LE32w(OrW(RdLE32w(switch_data, 8), <<3, 0>>)))

\* switch_data[offset] = (switch_data[offset] & 0xF0) | role, if offset < len
frer_mark_port(switch_data, offset, role) ==
    IF offset < Len(switch_data)
    THEN Put(switch_data, offset, <<((switch_data[offset + 1] \div 16) * 16) + role>>)
    ELSE switch_data

frer_mark_ports(switch_data) ==
    frer_mark_port(frer_mark_port(frer_mark_port(switch_data, 16 + (4 * 8) + 7, 4),
                                  16 + (2 * 8) + 7, 2),
                   16 + (3 * 8) + 7, 3)

\* the offsets i of range(0x200, len - 32) with switch_data[i:i+32] all 0xFF
frer_free_offsets(switch_data) ==
    {i \in 512..(Len(switch_data) - 33) : \A k \in 1..32 : switch_data[i + k] = 255}

\* the first of them, -1 for None
frer_config_offset(offsets) ==
    IF offsets = {} THEN -1 ELSE CHOOSE i \in offsets : \A j \in offsets : i <= j

frer_stream ==
    LE16(1) \o LE16(61889) \o LE16(16) \o LE16(12) \o LE16(256) \o LE16(1000)

frer_put_stream(switch_data, offset) ==
    IF offset = -1 THEN switch_data ELSE Put(switch_data, offset, frer_stream)

frer_add_stream(switch_data) ==
    frer_put_stream(switch_data, frer_config_offset(frer_free_offsets(switch_data)))

\* crc_new = zlib.crc32(switch_data[16:]); switch_data[12:16] = pack('<I', crc_new)
frer_store_crc(switch_data) == Put(switch_data, 12, LE32w(zlib_crc32(From(switch_data, 16))))

\* a variant that recalculates the checksum before the stream is added
enable_frer_crc_first(switch_data) ==
    IF Len(switch_data) < 16
    THEN NoFile
    ELSE frer_add_stream(frer_store_crc(frer_mark_ports(frer_set_config(switch_data))))

\* the bytes written to sja1110_switch_frer.bin; the header unpack raises
\* on a file shorter than 16 bytes
enable_frer_in_goldvip(switch_data) ==
    IF Len(switch_data) < 16
    THEN NoFile
    ELSE frer_store_crc(frer_add_stream(frer_mark_ports(frer_set_config(switch_data))))

\* verify_config(config): the device id read little-endian is the hardware
\* id and the stored checksum is zlib.crc32(config[16:])
verify_config(config) ==
    /\ RdLE32w(config, 0) = SJA1110_HARDWARE_ID
    /\ RdLE32w(config, 12) = zlib_crc32(From(config, 16))

(***************************************************************************)
(* sja1110_minimal_frer.py: SJA1110MinimalFRER                             *)
(* original_path names the same GoldVIP file as SJA1110FinalFix's.         *)
(***************************************************************************)
\* analyze_original_detailed: crc_method, from the range whose CRC32 equals
\* field3 = data[12:16]
crc_method(data) ==
    IF zlib_crc32(From(data, 16)) = RdLE32w(data, 12) THEN "data[16:]"
    ELSE IF zlib_crc32(From(data, 12)) = RdLE32w(data, 12) THEN "data[12:]"
    ELSE IF zlib_crc32(Slice(data, 4, 12)) = RdLE32w(data, 12) THEN "data[4:12]"
    ELSE "unknown"

\* cmd == 0xFFFFEC00 and port_indicator in (0x04, 0x06) at `offset`
min_port_match(config, offset) ==
    /\ offset + 8 <= Len(config)
    /\ RdLE32w(config, offset) = <<\hFFFF, \hEC00>>
    /\ (config[offset + 5] \in {4, 6})

\* new_val = val | 0x80000000; config[offset+4:offset+8] = pack('<I', new_val)
min_port(config, offset) ==
    IF min_port_match(config, offset)
    THEN Put(config, offset + 4, LE32w(OrW(RdLE32w(config, offset + 4), <<\h8000, 0>>)))
    ELSE config

\* for offset in range(16, len(config), 8)
RECURSIVE min_ports(_, _)
min_ports(config, offset) ==
    IF offset >= Len(config) THEN config ELSE min_ports(min_port(config, offset), offset + 8)

\* modified: some pass of the loop took a branch (a pass changes neither a
\* command nor the low byte of a value, so the matches are those of data)
min_modified(data) ==
    \E k \in 0..(Len(data) \div 8) : min_port_match(data, 16 + (8 * k))

\* "Recalculate CRC using discovered method"
min_store_crc(config, method) ==
    IF method = "data[16:]"
    THEN Put(config, 12, LE32w(zlib_crc32(From(config, 16))))
    ELSE config

\* the header unpack of analyze_original_detailed raises on a file shorter
\* than 16 bytes
create_conservative_frer(data) ==
    IF Len(data) < 16 THEN NoFile
    ELSE IF ~min_modified(data) THEN data
    ELSE min_store_crc(min_ports(data, 16), crc_method(data))

\* the offsets i of range(len(config) - 16) with config[i:i+16] all zero
plus_zero_runs(config) ==
    {i \in 0..(Len(config) - 17) : \A k \in 1..16 : config[i + k] = 0}

\* padding_start: the first of them, -1 for None
plus_padding_start(runs) ==
    IF runs = {} THEN -1 ELSE CHOOSE i \in runs : \A j \in runs : i <= j

frer_config ==
    << <<\h4652, \h4552>>, <<0, 1>>, <<0, 16>>, <<0, 12>>, <<\hF1CD, \h0100>> >>

\* for val in frer_config: if offset + 4 <= len(config): write, offset += 4
RECURSIVE plus_write(_, _, _)
plus_write(config, offset, n) ==
    IF n > Len(frer_config) THEN config
    ELSE IF offset + 4 <= Len(config)
         THEN plus_write(Put(config, offset, LE32w(frer_config[n])), offset + 4, n + 1)
         ELSE plus_write(config, offset, n + 1)

\* "if padding_start:" is false for None and for 0
plus_add_table(config, padding_start) ==
    IF padding_start > 0 THEN plus_write(config, padding_start, 1) ELSE config

create_original_plus_frer_table(original) ==
    plus_add_table(original, plus_padding_start(plus_zero_runs(original)))

(***************************************************************************)
(* sja1110_s32g_fix.py: fix_switch_firmware, verify_fixes                  *)
(***************************************************************************)
S32G_DEVICE_ID == <<\h0F03, \h00B7>>

\* a variant that packs the device id big-endian
fix_switch_firmware_be(data) ==
    IF Len(data) < 4 THEN NoFile ELSE Put(data, 0, BE32w(S32G_DEVICE_ID))

\* struct.pack_into('<I', data, 0x00, 0x0f0300b7), which raises on a buffer
\* shorter than 4 bytes
fix_switch_firmware(data) ==
    IF Len(data) < 4 THEN NoFile ELSE Put(data, 0, LE32w(S32G_DEVICE_ID))

\* verify_fixes: the switch check prints CORRECT
verify_fixes(switch_data) == RdLE32w(switch_data, 0) = S32G_DEVICE_ID

(***************************************************************************)
(* sja1110_test.py: FRERTester                                             *)
(***************************************************************************)
\* struct.pack('>H', v)
BE16(v) == <<(v \div 256) % 256, v % 256>>

\* struct.unpack('>H', buf[off:off+2])[0]
RdBE16(buf, off) == (256 * buf[off + 1]) + buf[off + 2]

\* str(n).encode() for n >= 0
RECURSIVE str_int(_)
str_int(n) == IF n < 10 THEN <<48 + n>> ELSE str_int(n \div 10) \o <<48 + (n % 10)>>

\* "FRER Test".encode(), the default data of create_frer_frame
default_data == <<70, 82, 69, 82, 32, 84, 101, 115, 116>>

\* ("FRER_TEST_" + str(int(time.time()))).encode()
test_data(now) == <<70, 82, 69, 82, 95, 84, 69, 83, 84, 95>> \o str_int(now)

\* data.encode() + b'\x00' * (46 - len(data))
frer_payload(data) == data \o Zeros(46 - Len(data))

\* the frame create_frer_frame returns when self.seq_num is seq
create_frer_frame(data, seq) ==
    <<0, 170, 187, 204, 221, 238>> \o <<0, 17, 34, 51, 68, 85>>
        \o BE16(61901) \o BE16(0) \o BE16(seq) \o BE16(2048) \o frer_payload(data)

\* self.seq_num = (self.seq_num + 1) % 65536
next_seq_num(seq) == (seq + 1) % 65536

(***************************************************************************)
(* sja1110_fix_crc.py: calculate_sja1110_crc                               *)
(***************************************************************************)
\* the polynomial 0x04C11DB7 written without reflecting it
poly_unreflected == <<\h04C1, \h1DB7>>

poly == <<\hEDB8, \h8320>>

\* for _ in range(8): one pass
crc_bit_step(crc) ==
    IF (crc[2] % 2) = 1 THEN XorW(CrcShift(crc), poly) ELSE CrcShift(crc)

\* crc ^= byte, then the eight passes
RECURSIVE crc_bit_steps(_, _)
crc_bit_steps(crc, n) == IF n = 0 THEN crc ELSE crc_bit_steps(crc_bit_step(crc), n - 1)

crc_byte_step(crc, byte) == crc_bit_steps(<<crc[1], Xor16(crc[2], byte)>>, 8)

\* the passes of the loop over s[lo..hi], first half then second half
RECURSIVE crc_span(_, _, _, _)
crc_span_rest(crc, s, lo, hi) == IF Len(crc) = 2 THEN crc_span(crc, s, lo, hi) ELSE crc

crc_span(crc, s, lo, hi) ==
    IF lo > hi THEN crc
    ELSE IF lo = hi THEN crc_byte_step(crc, s[lo])
    ELSE crc_span_rest(crc_span(crc, s, lo, (lo + hi) \div 2), s, ((lo + hi) \div 2) + 1, hi)

\* for byte in data[16:]: from element i of s on
crc_loop(crc, s, i) == crc_span(crc, s, i, Len(s))

\* a variant of the range that takes the header in
crc_range_whole(data) == data

\* the bytes the loop runs over: data[16:]
crc_range(data) == From(data, 16)

calculate_sja1110_crc(data) ==
    XorW(crc_loop(<<\hFFFF, \hFFFF>>, crc_range(data), 1), <<\hFFFF, \hFFFF>>)

\* fix_goldvip_crc: data[12:16] = 0, new_crc = calculate_sja1110_crc(data),
\* data[12:16] = new_crc
fix_new_crc(data) ==
    Put(data, 12, LE32w(calculate_sja1110_crc(Put(data, 12, LE32(0)))))

\* orig_crc = unpack('<I', orig_data[12:16]); data[12:16] = pack('<I', orig_crc)
fix_alt_crc(data, orig_data) == Put(data, 12, LE32w(RdLE32w(orig_data, 12)))

\* the bytes fix_goldvip_crc saves for the binary `data`, the reference
\* GoldVIP binary being orig_data (NoFile when os.path.exists is False);
\* NoFile when an unpack raises on a file shorter than 16 bytes
fix_goldvip_crc(data, orig_data) ==
    IF Len(data) < 16 THEN NoFile
    ELSE IF orig_data = NoFile THEN fix_new_crc(data)
    ELSE IF Len(orig_data) < 16 THEN NoFile
    ELSE fix_alt_crc(fix_new_crc(data), orig_data)

\* the byte values and the inputs the function is applied to
CrcBytes == {0, 1, 128, 255}

RECURSIVE SeqsUpTo(_, _)
SeqsUpTo(S, n) ==
    IF n = 0 THEN {<<>>}
    ELSE LET shorter == SeqsUpTo(S, n - 1)
         IN shorter \cup {Append(s, b) : s \in {t \in shorter : Len(t) = n - 1}, b \in S}

CrcInputs ==
    {Fill(k, 165) : k \in {0, 7, 15}}
    \cup {h \o p : h \in {Zeros(16), Fill(16, 255)}, p \in SeqsUpTo(CrcBytes, MaxPayload)}

CalculateCrc ==
    /\ crc_ret = <<>>
    /\ crc_ret' = calculate_sja1110_crc(crc_data)
    /\ UNCHANGED <<crc_data, properVars, regVars, v3_ret, fwVars, anVars, fixVars, goldVars, origVars, s32gVars, testVars>>

GenerateConfiguration ==
    /\ proper_builds < MaxBuilds
    /\ config_data' = generate_configuration(config_data)
    /\ proper_ret' = config_data'
    /\ proper_builds' = proper_builds + 1
    /\ verify_ret' = "none"
    /\ UNCHANGED <<regVars, v3_ret, fwVars, anVars, crcVars, fixVars, goldVars, origVars, s32gVars, testVars>>

VerifyConfiguration ==
    /\ proper_ret # <<>>
    /\ verify_ret' = IF verify_configuration(proper_ret) THEN "True" ELSE "False"
    /\ UNCHANGED <<config_data, proper_ret, proper_builds>>
    /\ UNCHANGED <<regVars, v3_ret, fwVars, anVars, crcVars, fixVars, goldVars, origVars, s32gVars, testVars>>

Init ==
    /\ config_data = <<>>
    /\ proper_ret = <<>>
    /\ proper_builds = 0
    /\ verify_ret = "none"
    /\ reg_config = <<>>
    /\ reg_ret = <<>>
    /\ reg_builds = 0
    /\ v3_ret = <<>>
    /\ switch_fw = <<>>
    /\ fw_ret = <<>>
    /\ an_data = <<>>
    /\ an_pc = "idle"
    /\ an_offset = 0
    /\ an_tables = <<>>
    /\ an_found = <<>>
    /\ crc_data = <<>>
    /\ crc_ret = <<>>
    /\ goldvip_ret = <<>>
    /\ fix_original = <<>>
    /\ fix_ret = <<>>
    /\ gold_file = <<-1>>
    /\ frer_file = <<-1>>
    /\ gold_ref = <<-1>>
    /\ fixed_file = <<-1>>
    /\ fix_verify = "none"
    /\ min_ret = <<>>
    /\ plus_ret = <<>>
    /\ s32g_in = NoFile
    /\ s32g_ret = <<>>
    /\ seq_num = 0
    /\ calls = 0
    /\ test_frame = <<>>
    /\ shown_seq = <<>>

Next ==
    \/ GenerateConfiguration
    \/ VerifyConfiguration
    \/ BuildConfiguration
    \/ CreateConfigV3
    \/ GenerateCompleteFirmware
    \/ LoadFile
    \/ AnalyzeSwitchFirmware
    \/ WalkStep
    \/ AnalyzeFrerTables

Spec == Init /\ [][Next]_vars

\* the checksum function applied to each input of CrcInputs
InitCrc ==
    /\ config_data = <<>>
    /\ proper_ret = <<>>
    /\ proper_builds = 0
    /\ verify_ret = "none"
    /\ reg_config = <<>>
    /\ reg_ret = <<>>
    /\ reg_builds = 0
    /\ v3_ret = <<>>
    /\ switch_fw = <<>>
    /\ fw_ret = <<>>
    /\ an_data = <<>>
    /\ an_pc = "idle"
    /\ an_offset = 0
    /\ an_tables = <<>>
    /\ an_found = <<>>
    /\ crc_data \in CrcInputs
    /\ crc_ret = <<>>
    /\ goldvip_ret = <<>>
    /\ fix_original = <<>>
    /\ fix_ret = <<>>
    /\ gold_file = <<-1>>
    /\ frer_file = <<-1>>
    /\ gold_ref = <<-1>>
    /\ fixed_file = <<-1>>
    /\ fix_verify = "none"
    /\ min_ret = <<>>
    /\ plus_ret = <<>>
    /\ s32g_in = NoFile
    /\ s32g_ret = <<>>
    /\ seq_num = 0
    /\ calls = 0
    /\ test_frame = <<>>
    /\ shown_seq = <<>>

NextCrc == CalculateCrc

SpecCrc == InitCrc /\ [][NextCrc]_vars

\* switch files handed to the analyzer: its 48-byte device header, two
\* tables of 4-byte entries (two known ids, an id get_table_name does not
\* know, 0xFFFFFFFF, 0), then zero padding or nothing, the last bytes cut or not
AnTableIds ==
    {W(TABLE_L2_FORWARDING), W(TABLE_FRER_STREAM_IDENT), W(153), <<\hFFFF, \hFFFF>>, <<0, 0>>}

AnTable(id, n) == LE32w(id) \o LE32(n) \o LE32(4) \o LE32(0) \o Fill(4 * n, 170)

AnHeader == create_device_header(0) \o Zeros(12)

AnCut(file, cut) == Slice(file, 0, Len(file) - cut)

AnFiles ==
    {AnCut(AnHeader \o AnTable(id1, n1) \o AnTable(id2, n2) \o Zeros(pad), cut) :
        id1 \in AnTableIds, n1 \in 0..MaxEntries, id2 \in AnTableIds,
        n2 \in 0..MaxEntries, pad \in {0, 20}, cut \in {0, 2}}

\* the analyzer run on each file of AnFiles
InitAn ==
    /\ config_data = <<>>
    /\ proper_ret = <<>>
    /\ proper_builds = 0
    /\ verify_ret = "none"
    /\ reg_config = <<>>
    /\ reg_ret = <<>>
    /\ reg_builds = 0
    /\ v3_ret = <<>>
    /\ switch_fw = <<>>
    /\ fw_ret = <<>>
    /\ an_data \in AnFiles
    /\ an_pc = "loaded"
    /\ an_offset = 0
    /\ an_tables = <<>>
    /\ an_found = <<>>
    /\ crc_data = <<>>
    /\ crc_ret = <<>>
    /\ goldvip_ret = <<>>
    /\ fix_original = <<>>
    /\ fix_ret = <<>>
    /\ gold_file = <<-1>>
    /\ frer_file = <<-1>>
    /\ gold_ref = <<-1>>
    /\ fixed_file = <<-1>>
    /\ fix_verify = "none"
    /\ min_ret = <<>>
    /\ plus_ret = <<>>
    /\ s32g_in = NoFile
    /\ s32g_ret = <<>>
    /\ seq_num = 0
    /\ calls = 0
    /\ test_frame = <<>>
    /\ shown_seq = <<>>

NextAn ==
    \/ AnalyzeSwitchFirmware
    \/ WalkStep
    \/ AnalyzeFrerTables

SpecAn == InitAn /\ [][NextAn]_vars

\* switch files whose first table declares any entry_count and entry_size,
\* 0 and 0xFFFFFFFF included, whatever bytes follow its header; and the
\* shortest buffers analyze_switch_firmware reads a device header from
AnDeclaredIds ==
    {W(TABLE_L2_FORWARDING), W(TABLE_FRER_STREAM_IDENT), W(TABLE_FRER_SEQUENCE_RECOVERY)}

AnDeclaredCounts == {<<0, 0>>, <<0, 1>>, <<0, 3>>, <<\hFFFF, \hFFFF>>}

AnDeclaredSizes == {<<0, 0>>, <<0, 4>>, <<\hFFFF, \hFFFF>>}

AnDeclaredBodies == {0, 4, 12}

AnDeclaredTable(id, count, size) == LE32w(id) \o LE32w(count) \o LE32w(size) \o LE32(0)

AnDeclaredFiles ==
    {AnHeader \o AnDeclaredTable(id, count, size) \o Fill(body, 170)
         \o AnDeclaredTable(W(153), <<0, 0>>, <<0, 0>>) \o Zeros(20) :
        id \in AnDeclaredIds, count \in AnDeclaredCounts,
        size \in AnDeclaredSizes, body \in AnDeclaredBodies}
    \cup {Slice(AnHeader \o AnDeclaredTable(W(TABLE_FRER_STREAM_IDENT), <<0, 1>>, <<0, 4>>), 0, len) :
              len \in {20, 48, 64}}

\* the analyzer run on each file of AnDeclaredFiles; the interpreter runs
\* the next statement of the one thread there is until the program ends
InitAnLive ==
    /\ config_data = <<>>
    /\ proper_ret = <<>>
    /\ proper_builds = 0
    /\ verify_ret = "none"
    /\ reg_config = <<>>
    /\ reg_ret = <<>>
    /\ reg_builds = 0
    /\ v3_ret = <<>>
    /\ switch_fw = <<>>
    /\ fw_ret = <<>>
    /\ an_data \in AnDeclaredFiles
    /\ an_pc = "loaded"
    /\ an_offset = 0
    /\ an_tables = <<>>
    /\ an_found = <<>>
    /\ crc_data = <<>>
    /\ crc_ret = <<>>
    /\ goldvip_ret = <<>>
    /\ fix_original = <<>>
    /\ fix_ret = <<>>
    /\ gold_file = <<-1>>
    /\ frer_file = <<-1>>
    /\ gold_ref = <<-1>>
    /\ fixed_file = <<-1>>
    /\ fix_verify = "none"
    /\ min_ret = <<>>
    /\ plus_ret = <<>>
    /\ s32g_in = NoFile
    /\ s32g_ret = <<>>
    /\ seq_num = 0
    /\ calls = 0
    /\ test_frame = <<>>
    /\ shown_seq = <<>>

SpecAnLive == InitAnLive /\ [][NextAn]_vars /\ WF_vars(NextAn)

CreateGoldvipSwitchFirmware ==
    /\ goldvip_ret' = create_goldvip_switch_firmware
    /\ UNCHANGED <<fix_original, fix_ret>>
    /\ UNCHANGED <<properVars, regVars, v3_ret, fwVars, anVars, crcVars, goldVars, origVars, s32gVars, testVars>>

CreateSwitchConfig ==
    /\ fix_original # <<>>
    /\ fix_ret' = create_switch_config(fix_original)
    /\ UNCHANGED <<goldvip_ret, fix_original>>
    /\ UNCHANGED <<properVars, regVars, v3_ret, fwVars, anVars, crcVars, goldVars, origVars, s32gVars, testVars>>

\* the files at original_path: a 16-byte header with either Device ID, one
\* 8-byte [command][value] record, zero fill; cut or filled to each length
FixDeviceIds == {SJA1110_HARDWARE_ID, <<\hB700, \h030E>>}

FixCommands == {<<\h00EC, \hFFFF>>, <<0, 1>>}

FixValues == {<<\h9FFF, \h7F08>>, <<\h1FFF, \h7F04>>, <<\h9FFF, \h7F02>>}

FixLengths == {2, 14, 24, SWITCH_CONFIG_SIZE, SWITCH_CONFIG_SIZE + 8}

FixFile(id, cmd, val, len) ==
    Slice(LE32w(id) \o LE32(6) \o LE32(0) \o LE32(0) \o LE32w(cmd) \o LE32w(val)
              \o Zeros(SWITCH_CONFIG_SIZE), 0, len)

Originals ==
    {FixFile(id, cmd, val, len) :
        id \in FixDeviceIds, cmd \in FixCommands, val \in FixValues, len \in FixLengths}

\* the four switch builders, create_switch_config on each file of Originals
InitBuild ==
    /\ config_data = <<>>
    /\ proper_ret = <<>>
    /\ proper_builds = 0
    /\ verify_ret = "none"
    /\ reg_config = <<>>
    /\ reg_ret = <<>>
    /\ reg_builds = 0
    /\ v3_ret = <<>>
    /\ switch_fw = <<>>
    /\ fw_ret = <<>>
    /\ an_data = <<>>
    /\ an_pc = "idle"
    /\ an_offset = 0
    /\ an_tables = <<>>
    /\ an_found = <<>>
    /\ crc_data = <<>>
    /\ crc_ret = <<>>
    /\ goldvip_ret = <<>>
    /\ fix_original \in Originals
    /\ fix_ret = <<>>
    /\ gold_file = <<-1>>
    /\ frer_file = <<-1>>
    /\ gold_ref = <<-1>>
    /\ fixed_file = <<-1>>
    /\ fix_verify = "none"
    /\ min_ret = <<>>
    /\ plus_ret = <<>>
    /\ s32g_in = NoFile
    /\ s32g_ret = <<>>
    /\ seq_num = 0
    /\ calls = 0
    /\ test_frame = <<>>
    /\ shown_seq = <<>>

NextBuild ==
    \/ CreateGoldvipSwitchFirmware
    \/ GenerateCompleteFirmware
    \/ GenerateConfiguration
    \/ CreateSwitchConfig

SpecBuild == InitBuild /\ [][NextBuild]_vars

EnableFrerInGoldvip ==
    /\ gold_file # NoFile
    /\ frer_file' = IF enable_frer_in_goldvip(gold_file) = NoFile
                    THEN frer_file ELSE enable_frer_in_goldvip(gold_file)
    /\ UNCHANGED <<gold_file, gold_ref, fixed_file>>
    /\ UNCHANGED <<properVars, regVars, v3_ret, fwVars, anVars, crcVars, fixVars, origVars, s32gVars, testVars>>

\* the reference binary is there or not when the script runs
FixGoldvipCrc ==
    /\ frer_file # NoFile
    /\ \E orig_data \in {NoFile, gold_file} :
        /\ gold_ref' = orig_data
        /\ fixed_file' = IF fix_goldvip_crc(frer_file, orig_data) = NoFile
                         THEN fixed_file ELSE fix_goldvip_crc(frer_file, orig_data)
    /\ UNCHANGED <<gold_file, frer_file>>
    /\ UNCHANGED <<properVars, regVars, v3_ret, fwVars, anVars, crcVars, fixVars, origVars, s32gVars, testVars>>

\* GoldVIP switch binaries: the device id, config1, config2, a stored
\* checksum, eight [command][value] port records, then a fill; cut to a length
GoldConfig1 == {<<0, 6>>, <<0, 134>>, <<\hFFFF, \hFF7F>>}

GoldConfig2 == {<<0, 0>>, <<\hDD10, 0>>, <<\hDD13, 5>>}

GoldLengths == {10, 16, 40, 50, 600}

GoldPorts == [p \in 0..7 |-> LE32w(<<\h00EC, \hFFFF>>) \o LE32w(<<\h9FFF, \h7F00 + (2 * p)>>)]

GoldFile(config1, config2, len, fill) ==
    Slice(LE32w(<<\h0F03, \h00B7>>) \o LE32w(config1) \o LE32w(config2)
              \o LE32w(<<\h86E0, \h2CE8>>) \o ConcatFrom(GoldPorts, 0, 8) \o Fill(600, fill),
          0, len)

GoldFiles ==
    {GoldFile(config1, config2, len, fill) :
        config1 \in GoldConfig1, config2 \in GoldConfig2, len \in GoldLengths, fill \in {0, 255}}

\* enable_frer_in_goldvip on each file of GoldFiles, then fix_goldvip_crc
InitGold ==
    /\ config_data = <<>>
    /\ proper_ret = <<>>
    /\ proper_builds = 0
    /\ verify_ret = "none"
    /\ reg_config = <<>>
    /\ reg_ret = <<>>
    /\ reg_builds = 0
    /\ v3_ret = <<>>
    /\ switch_fw = <<>>
    /\ fw_ret = <<>>
    /\ an_data = <<>>
    /\ an_pc = "idle"
    /\ an_offset = 0
    /\ an_tables = <<>>
    /\ an_found = <<>>
    /\ crc_data = <<>>
    /\ crc_ret = <<>>
    /\ goldvip_ret = <<>>
    /\ fix_original = <<>>
    /\ fix_ret = <<>>
    /\ gold_file \in GoldFiles
    /\ frer_file = NoFile
    /\ gold_ref = NoFile
    /\ fixed_file = NoFile
    /\ fix_verify = "none"
    /\ min_ret = <<>>
    /\ plus_ret = <<>>
    /\ s32g_in = NoFile
    /\ s32g_ret = <<>>
    /\ seq_num = 0
    /\ calls = 0
    /\ test_frame = <<>>
    /\ shown_seq = <<>>

NextGold ==
    \/ EnableFrerInGoldvip
    \/ FixGoldvipCrc

SpecGold == InitGold /\ [][NextGold]_vars

\* main(): verify_config on the configuration create_switch_config returned
VerifyConfig ==
    /\ fix_ret # <<>>
    /\ fix_ret # NoFile
    /\ Len(fix_ret) >= 16
    /\ fix_verify' = IF verify_config(fix_ret) THEN "True" ELSE "False"
    /\ UNCHANGED <<min_ret, plus_ret>>
    /\ UNCHANGED <<properVars, regVars, v3_ret, fwVars, anVars, crcVars, fixVars, goldVars, s32gVars, testVars>>

CreateConservativeFrer ==
    /\ fix_original # <<>>
    /\ min_ret' = create_conservative_frer(fix_original)
    /\ UNCHANGED <<fix_verify, plus_ret>>
    /\ UNCHANGED <<properVars, regVars, v3_ret, fwVars, anVars, crcVars, fixVars, goldVars, s32gVars, testVars>>

CreateOriginalPlusFrerTable ==
    /\ fix_original # <<>>
    /\ plus_ret' = create_original_plus_frer_table(fix_original)
    /\ UNCHANGED <<fix_verify, min_ret>>
    /\ UNCHANGED <<properVars, regVars, v3_ret, fwVars, anVars, crcVars, fixVars, goldVars, s32gVars, testVars>>

\* originals with a port record and a fill after the header; the field at
\* bytes 12..15 is the CRC32 of bytes[16:], or 0, or the CRC32 of bytes[4:12]
OrigCommands == {<<\hFFFF, \hEC00>>, <<0, 0>>}

OrigValues == {<<\h1FFF, \h7F04>>, <<\h9FFF, \h7F06>>, <<\h9FFF, \h7F02>>, <<0, 0>>}

OrigLengths == {24, 48}

OrigBody(cmd, val, fill, len) == Slice(LE32w(cmd) \o LE32w(val) \o Fill(len, fill), 0, len - 16)

OrigHead == LE32w(SJA1110_HARDWARE_ID) \o LE32(6) \o LE32(0)

OrigField(kind, body) ==
    IF kind = "data[16:]" THEN LE32w(zlib_crc32(body))
    ELSE IF kind = "data[4:12]" THEN LE32w(zlib_crc32(LE32(6) \o LE32(0)))
    ELSE LE32(0)

OrigWith(kind, body) == OrigHead \o OrigField(kind, body) \o body

OrigFiles ==
    {OrigWith(kind, OrigBody(cmd, val, fill, len)) :
        kind \in {"data[16:]", "data[4:12]", "zero"}, cmd \in OrigCommands,
        val \in OrigValues, fill \in {0, 255}, len \in OrigLengths}
    \cup Originals

\* SJA1110FinalFix and SJA1110MinimalFRER on each original
InitOrig ==
    /\ config_data = <<>>
    /\ proper_ret = <<>>
    /\ proper_builds = 0
    /\ verify_ret = "none"
    /\ reg_config = <<>>
    /\ reg_ret = <<>>
    /\ reg_builds = 0
    /\ v3_ret = <<>>
    /\ switch_fw = <<>>
    /\ fw_ret = <<>>
    /\ an_data = <<>>
    /\ an_pc = "idle"
    /\ an_offset = 0
    /\ an_tables = <<>>
    /\ an_found = <<>>
    /\ crc_data = <<>>
    /\ crc_ret = <<>>
    /\ goldvip_ret = <<>>
    /\ fix_original \in OrigFiles
    /\ fix_ret = <<>>
    /\ gold_file = <<-1>>
    /\ frer_file = <<-1>>
    /\ gold_ref = <<-1>>
    /\ fixed_file = <<-1>>
    /\ fix_verify = "none"
    /\ min_ret = <<>>
    /\ plus_ret = <<>>
    /\ s32g_in = NoFile
    /\ s32g_ret = <<>>
    /\ seq_num = 0
    /\ calls = 0
    /\ test_frame = <<>>
    /\ shown_seq = <<>>

NextOrig ==
    \/ CreateSwitchConfig
    \/ VerifyConfig
    \/ CreateConservativeFrer
    \/ CreateOriginalPlusFrerTable

SpecOrig == InitOrig /\ [][NextOrig]_vars

FixSwitchFirmware ==
    /\ s32g_in # NoFile
    /\ s32g_ret' = fix_switch_firmware(s32g_in)
    /\ UNCHANGED s32g_in
    /\ UNCHANGED <<properVars, regVars, v3_ret, fwVars, anVars, crcVars, fixVars, goldVars, origVars, testVars>>

\* the files fix_switch_firmware is run on: every byte string of up to 4
\* bytes over S32gBytes, the switch blobs generate_complete_firmware returns
\* (the file main() writes), and binaries with a valid checksum
S32gBytes == {0, 15, 183}

S32gInputs ==
    SeqsUpTo(S32gBytes, 4)
    \cup {returned_switch_fw(assemble_switch_fw(now)) : now \in Timestamps}
    \cup {OrigWith("data[16:]", OrigBody(cmd, val, 255, len)) :
              cmd \in OrigCommands, val \in OrigValues, len \in OrigLengths}

InitS32g ==
    /\ config_data = <<>>
    /\ proper_ret = <<>>
    /\ proper_builds = 0
    /\ verify_ret = "none"
    /\ reg_config = <<>>
    /\ reg_ret = <<>>
    /\ reg_builds = 0
    /\ v3_ret = <<>>
    /\ switch_fw = <<>>
    /\ fw_ret = <<>>
    /\ an_data = <<>>
    /\ an_pc = "idle"
    /\ an_offset = 0
    /\ an_tables = <<>>
    /\ an_found = <<>>
    /\ crc_data = <<>>
    /\ crc_ret = <<>>
    /\ goldvip_ret = <<>>
    /\ fix_original = <<>>
    /\ fix_ret = <<>>
    /\ gold_file = <<-1>>
    /\ frer_file = <<-1>>
    /\ gold_ref = <<-1>>
    /\ fixed_file = <<-1>>
    /\ fix_verify = "none"
    /\ min_ret = <<>>
    /\ plus_ret = <<>>
    /\ s32g_in \in S32gInputs
    /\ s32g_ret = <<>>
    /\ seq_num = 0
    /\ calls = 0
    /\ test_frame = <<>>
    /\ shown_seq = <<>>

NextS32g == FixSwitchFirmware

SpecS32g == InitS32g /\ [][NextS32g]_vars

\* testers as constructed, and testers that have made 65510 calls
StartCalls == {0, 65510}

\* the calls made before the run began
RunStart(k) == CHOOSE c \in StartCalls : (c <= k) /\ (\A e \in StartCalls : (e <= k) => (e <= c))

\* a direct call of create_frer_frame
CreateFrerFrame ==
    /\ calls - RunStart(calls) < MaxCalls
    /\ test_frame' = create_frer_frame(default_data, seq_num)
    /\ seq_num' = next_seq_num(seq_num)
    /\ calls' = calls + 1
    /\ shown_seq' = <<>>
    /\ UNCHANGED <<properVars, regVars, v3_ret, fwVars, anVars, crcVars, fixVars, goldVars, origVars, s32gVars>>

\* verify_replication up to its "Sending test frame" line
VerifyReplication ==
    /\ calls - RunStart(calls) < MaxCalls
    /\ \E now \in Timestamps :
        test_frame' = create_frer_frame(test_data(now), seq_num)
    /\ seq_num' = next_seq_num(seq_num)
    /\ calls' = calls + 1
    /\ shown_seq' = <<seq_num' - 1>>
    /\ UNCHANGED <<properVars, regVars, v3_ret, fwVars, anVars, crcVars, fixVars, goldVars, origVars, s32gVars>>

InitTest ==
    /\ config_data = <<>>
    /\ proper_ret = <<>>
    /\ proper_builds = 0
    /\ verify_ret = "none"
    /\ reg_config = <<>>
    /\ reg_ret = <<>>
    /\ reg_builds = 0
    /\ v3_ret = <<>>
    /\ switch_fw = <<>>
    /\ fw_ret = <<>>
    /\ an_data = <<>>
    /\ an_pc = "idle"
    /\ an_offset = 0
    /\ an_tables = <<>>
    /\ an_found = <<>>
    /\ crc_data = <<>>
    /\ crc_ret = <<>>
    /\ goldvip_ret = <<>>
    /\ fix_original = <<>>
    /\ fix_ret = <<>>
    /\ gold_file = <<-1>>
    /\ frer_file = <<-1>>
    /\ gold_ref = <<-1>>
    /\ fixed_file = <<-1>>
    /\ fix_verify = "none"
    /\ min_ret = <<>>
    /\ plus_ret = <<>>
    /\ s32g_in = NoFile
    /\ s32g_ret = <<>>
    /\ calls \in StartCalls
    /\ seq_num = calls % 65536
    /\ test_frame = <<>>
    /\ shown_seq = <<>>

NextTest ==
    \/ CreateFrerFrame
    \/ VerifyReplication

SpecTest == InitTest /\ [][NextTest]_vars

(***************************************************************************)
(* Reading the blobs back, for the properties below.                       *)
(***************************************************************************)
\* the bytes one generate_configuration call appends
ProperBlockLen == Len(Proper_device_header) + Len(Proper_tables)

\* SJA1110ProperConfig: reachable_ports and broadcast_domain of `port` in
\* the L2 forwarding table of the block appended by call k (0-based)
ProperReachAt(blob, k, port) ==
    RdLE32w(blob, (k * ProperBlockLen) + Len(Proper_device_header) + 12 + (8 * port))

ProperBcastAt(blob, k, port) ==
    RdLE32w(blob, (k * ProperBlockLen) + Len(Proper_device_header) + 12 + (8 * port) + 4)

RECURSIVE SumLen(_, _)
SumLen(ts, n) == IF n = 0 THEN 0 ELSE SumLen(ts, n - 1) + Len(ts[n])

\* SJA1110FRERFirmware: where generate_complete_firmware puts table i (1..6)
FRERTableOffset(i) == Len(create_device_header(0)) + SumLen(FRER_tables, i - 1)

FRERReachAt(blob, port) == RdLE16(blob, FRERTableOffset(3) + 16 + (16 * port))

FRERBcastAt(blob, port) == RdLE16(blob, FRERTableOffset(3) + 16 + (16 * port) + 2)

V3ReachAt(blob, port) == RdLE32w(blob, 16 + 12 + (8 * port))

\* the full 11-port set with bit p cleared
AllPortsBut(p) == 2047 - (2 ^ p)

(***************************************************************************)
(* C1: in every L2 forwarding table a builder emits, the entry of the      *)
(* generator port 4 has reachable_ports = {2,3} = 0x00C, never the full    *)
(* port set: in each block of a SJA1110ProperConfig blob, in the           *)
(* SJA1110FRERFirmware switch blob and in the FRERConfigV3 blob.           *)
(***************************************************************************)
C1_GeneratorReachIsOutputMask ==
    /\ \A k \in 0..(proper_builds - 1) : ProperReachAt(proper_ret, k, 4) = W(12)
    /\ (fw_ret # <<>>) => (FRERReachAt(fw_ret, 4) = 12)
    /\ (v3_ret # <<>>) => (V3ReachAt(v3_ret, 4) = W(12))

C1_Witness ==
    /\ proper_builds = 2
    /\ fw_ret # <<>>
    /\ v3_ret # <<>>
    /\ ProperReachAt(proper_ret, 1, 4) = W(12)

(***************************************************************************)
(* C2: for every blob generate_configuration returns, bytes[12:16] hold    *)
(* the checksum of bytes[16:] only, the header excluded.                   *)
(***************************************************************************)
C2_ChecksumOverBodyOnly ==
    (proper_ret # <<>>) => (RdLE32w(proper_ret, 12) = zlib_crc32(From(proper_ret, 16)))

(***************************************************************************)
(* C3: generate_complete_firmware never returns a truncated prefix of the  *)
(* assembled header and tables: a returned blob is the whole assembled     *)
(* buffer (a longer buffer makes the build fail instead).                  *)
(***************************************************************************)
C3_NeverTruncates ==
    (fw_ret # <<>>) => (Len(switch_fw) <= 2236 /\ fw_ret = switch_fw)

(***************************************************************************)
(* C4: the switch blob starts with a 16-byte header, the first table       *)
(* (GENERAL_PARAMS) begins at offset 16, and bytes[12:16] hold the         *)
(* checksum of bytes[16:].                                                 *)
(***************************************************************************)
C4_SixteenByteHeaderWithChecksum ==
    (fw_ret # <<>>) =>
        /\ RdLE32w(fw_ret, 16) = W(TABLE_GENERAL_PARAMS)
        /\ RdLE32w(fw_ret, 12) = zlib_crc32(From(fw_ret, 16))

(***************************************************************************)
(* C5: the table walk of analyze_switch_firmware over a built switch blob  *)
(* visits exactly the tables the builder wrote, in order (0x11, 0x09,      *)
(* 0x08, 0x20, 0x23, 0x25), each with the builder's entry_count and        *)
(* entry_size.                                                             *)
(***************************************************************************)
WrittenTables == [i \in 1..6 |->
    [table_id |-> RdLE32w(FRER_tables[i], 0),
     entry_count |-> RdLE32w(FRER_tables[i], 4),
     entry_size |-> RdLE32w(FRER_tables[i], 8)]]

VisitedTables == [i \in 1..Len(an_tables) |->
    [table_id |-> an_tables[i].table_id,
     entry_count |-> an_tables[i].entry_count,
     entry_size |-> an_tables[i].entry_size]]

C5_WalkVisitsWrittenTables ==
    (an_pc = "frer") => (VisitedTables = WrittenTables)

(***************************************************************************)
(* C6: no state persists across builds: every generate_configuration call  *)
(* on one SJA1110ProperConfig, and every build_configuration call on one   *)
(* SJA1110Config, returns the bytes of the first call on a fresh instance. *)
(***************************************************************************)
FirstConfiguration == generate_configuration(<<>>)

FirstBinary == generate_binary(build_registers(<<>>))

C6_BuildsAreRepeatable ==
    /\ (proper_builds >= 1) => (proper_ret = FirstConfiguration)
    /\ (reg_builds >= 1) => (reg_ret = FirstBinary)

(***************************************************************************)
(* C7: calculate_sja1110_crc(data) is the reference checksum of data[16:]: *)
(* CRC32 with polynomial 0x04C11DB7, every input byte bit-reversed before  *)
(* folding, accumulator seeded 0xFFFFFFFF, the final accumulator           *)
(* bit-reversed and complemented.                                          *)
(***************************************************************************)
RECURSIVE Reverse(_, _)
Reverse(v, bits) ==
    IF bits = 0 THEN 0 ELSE ((v % 2) * (2 ^ (bits - 1))) + Reverse(v \div 2, bits - 1)

RefShiftLeft(w) == <<((w[1] * 2) % 65536) + (w[2] \div 32768), (w[2] * 2) % 65536>>

RefBit(w) ==
    IF w[1] >= 32768 THEN XorW(RefShiftLeft(w), <<\h04C1, \h1DB7>>) ELSE RefShiftLeft(w)

RefByte(w, byte) ==
    LET c0 == <<Xor16(w[1], 256 * Reverse(byte, 8)), w[2]>>
    IN RefBit(RefBit(RefBit(RefBit(RefBit(RefBit(RefBit(RefBit(c0))))))))

RECURSIVE RefLoop(_, _, _)
RefLoop(w, s, i) == IF i > Len(s) THEN w ELSE RefLoop(RefByte(w, s[i]), s, i + 1)

ReferenceCrc(s) ==
    LET acc == RefLoop(<<\hFFFF, \hFFFF>>, s, 1)
    IN XorW(<<Reverse(acc[2], 16), Reverse(acc[1], 16)>>, <<\hFFFF, \hFFFF>>)

C8_DefaultForwardingExcludesSelf ==
    /\ (fw_ret # <<>>) =>
        \A p \in 0..10 :
            /\ (p # 4) => (FRERReachAt(fw_ret, p) = AllPortsBut(p))
            /\ (p \notin {2, 3, 4}) => (FRERBcastAt(fw_ret, p) = AllPortsBut(p))
    /\ \A k \in 0..(proper_builds - 1) :
        \A p \in 0..(NUM_PORTS - 1) :
            /\ (p # 4) => (ProperReachAt(proper_ret, k, p) = W(AllPortsBut(p)))
            /\ (p \notin {2, 3, 4}) => (ProperBcastAt(proper_ret, k, p) = W(AllPortsBut(p)))

(***************************************************************************)
(* C9: verify_configuration returns True for every blob                    *)
(* generate_configuration returns, also after earlier calls on the same    *)
(* instance.                                                               *)
(***************************************************************************)
C9_BuiltBlobVerifies == verify_ret # "False"

C9_Witness ==
    /\ proper_builds = 2
    /\ verify_ret = "True"

(***************************************************************************)
(* C10: in every returned switch blob each of the six table headers        *)
(* declares an extent that fits: table_offset + 16 + entry_count *         *)
(* entry_size <= the blob length.                                          *)
(***************************************************************************)
DeclaredEnd(blob, off) == off + table_size(table_header_at(blob, off))

C10_DeclaredExtentsFit ==
    (fw_ret # <<>>) =>
        \A i \in 1..6 : DeclaredEnd(fw_ret, FRERTableOffset(i)) <= Len(fw_ret)

(***************************************************************************)
(* C11: a table whose header declares more bytes (16 + entry_count *       *)
(* entry_size) than remain in the buffer makes decoding fail: the walk     *)
(* never reports such a table and carries on, and never samples a short or *)
(* empty first entry.                                                      *)
(***************************************************************************)
C11_TruncatedTableRejected ==
    \A i \in 1..Len(an_tables) :
        /\ an_tables[i].offset + table_size(an_tables[i]) <= Len(an_data)
        /\ (an_tables[i].first_entry # <<-1>>) =>
               (Len(an_tables[i].first_entry) = Min(WordCap(an_tables[i].entry_size), 32))

(***************************************************************************)
(* C12: every table a builder writes carries in the crc field of its       *)
(* header the checksum of exactly its entry bytes: the six tables of       *)
(* SJA1110FRERFirmware as they lie in the returned blob (crc at +12,       *)
(* entries from +16) and the six tables of SJA1110ProperConfig (crc at +8, *)
(* entries from +12).                                                      *)
(***************************************************************************)
ProperTableList ==
    <<Proper_create_l2_forwarding_table, Proper_create_mac_config_table,
      Proper_create_l2_forwarding_params, Proper_create_general_params,
      Proper_create_vlan_lookup_table, Proper_create_xmii_params>>

ProperTableOffset(i) == Len(Proper_device_header) + SumLen(ProperTableList, i - 1)

FRERTableCrcCoversEntries(blob, i) ==
    RdLE32w(blob, FRERTableOffset(i) + 12)
        = zlib_crc32(Slice(blob, FRERTableOffset(i) + 16, FRERTableOffset(i + 1)))

ProperTableCrcCoversEntries(blob, i) ==
    RdLE32w(blob, ProperTableOffset(i) + 8)
        = zlib_crc32(Slice(blob, ProperTableOffset(i) + 12, ProperTableOffset(i + 1)))

C12_TableCrcCoversEntries ==
    /\ (fw_ret # <<>>) => \A i \in 1..6 : FRERTableCrcCoversEntries(fw_ret, i)
    /\ (proper_ret # <<>>) => \A i \in 1..6 : ProperTableCrcCoversEntries(proper_ret, i)

(***************************************************************************)
(* C13: every table-based builder concatenates its tables in the canonical *)
(* order: GENERAL_PARAMS (0x11) before MAC_CONFIG (0x09) before            *)
(* L2_FORWARDING (0x08), the FRER tables after them; read from the table   *)
(* ids in the returned blobs of SJA1110FRERFirmware and of                 *)
(* SJA1110ProperConfig.                                                    *)
(***************************************************************************)
FRERTableIdAt(blob, i) == RdLE32w(blob, FRERTableOffset(i))

ProperTableIdAt(blob, i) == RdLE32w(blob, ProperTableOffset(i))

\* the position (1..6) of the table with this id in a SJA1110ProperConfig blob
ProperPosOf(blob, id) == CHOOSE i \in 1..6 : ProperTableIdAt(blob, i) = W(id)

C13_CanonicalTableOrder ==
    /\ (fw_ret # <<>>) =>
        /\ FRERTableIdAt(fw_ret, 1) = W(TABLE_GENERAL_PARAMS)
        /\ FRERTableIdAt(fw_ret, 2) = W(TABLE_MAC_CONFIG)
        /\ FRERTableIdAt(fw_ret, 3) = W(TABLE_L2_FORWARDING)
        /\ \A i \in 4..6 : FRERTableIdAt(fw_ret, i) \in
               {W(TABLE_FRER_STREAM_IDENT), W(TABLE_FRER_SEQUENCE_ENCODE),
                W(TABLE_FRER_SEQUENCE_RECOVERY)}
    /\ (proper_ret # <<>>) =>
        /\ ProperPosOf(proper_ret, BLKID_GENERAL_PARAMS_TABLE)
               < ProperPosOf(proper_ret, BLKID_MAC_CONFIG_TABLE)
        /\ ProperPosOf(proper_ret, BLKID_MAC_CONFIG_TABLE)
               < ProperPosOf(proper_ret, BLKID_L2_FORWARDING_TABLE)

(***************************************************************************)
(* C14: for every input buffer and every byte position in it, changing     *)
(* that one byte to a different value changes the result of                *)
(* calculate_sja1110_crc.                                                  *)
(***************************************************************************)
\* the buffer with the byte at 1-based position i replaced by b
WithByte(data, i, b) == Put(data, i - 1, <<b>>)

ByteChangeChangesCrc(data, ret, i) ==
    \A b \in CrcBytes \ {data[i]} : calculate_sja1110_crc(WithByte(data, i, b)) # ret

C14_SingleByteChangeChangesCrc ==
    (crc_ret # <<>>) => \A i \in 1..Len(crc_data) : ByteChangeChangesCrc(crc_data, crc_ret, i)

(***************************************************************************)
(* C15: in the SJA1110FRERFirmware blob every port whose MAC_CONFIG entry  *)
(* has FRER enabled (byte 5 of its 64-byte entry) has a stream role: it is *)
(* the replication input port 4 or a bit of the replication mask of at     *)
(* least one Sequence Generation entry.                                    *)
(***************************************************************************)
HasBit(mask, p) == ((mask \div (2 ^ p)) % 2) = 1

PortFrerEnabled(blob, p) == blob[FRERTableOffset(2) + 16 + (64 * p) + 5 + 1] = 1

SeqGenMask(blob, s) == RdLE16(blob, FRERTableOffset(5) + 16 + (24 * s) + 10)

C15_FrerPortsHaveStreamRole ==
    (fw_ret # <<>>) =>
        \A p \in 0..10 :
            PortFrerEnabled(fw_ret, p) =>
                \/ p = 4
                \/ \E s \in 0..15 : HasBit(SeqGenMask(fw_ret, s), p)

(***************************************************************************)
(* C16: every entry of the Sequence Generation table has a non-empty       *)
(* replication (output_ports) mask that does not contain the input port 4. *)
(***************************************************************************)
C16_ReplicationMaskValid ==
    (fw_ret # <<>>) =>
        \A s \in 0..15 :
            /\ SeqGenMask(fw_ret, s) # 0
            /\ ~HasBit(SeqGenMask(fw_ret, s), 4)

(***************************************************************************)
(* C17: the Stream Identification, Sequence Generation and Sequence        *)
(* Recovery tables, as built into the assembled buffer, have the same      *)
(* entry_count, entry i of each references the same stream_id, no          *)
(* stream_id occurs twice within a table, and every Sequence Recovery      *)
(* entry has recovery window 256 and timeout 100000.                       *)
(***************************************************************************)
\* entry_count, entry_size of table i (1..6) and the u16 that starts its entry e
FRERCountOf(buf, i) == RdLE32w(buf, FRERTableOffset(i) + 4)

FRERSizeOf(buf, i) == RdLE32w(buf, FRERTableOffset(i) + 8)[2]

FRERStreamOf(buf, i, e) == RdLE16(buf, FRERTableOffset(i) + 16 + (FRERSizeOf(buf, i) * e))

RecoveryWindow(buf, e) == RdLE16(buf, FRERTableOffset(6) + 16 + (48 * e) + 4)

RecoveryTimeout(buf, e) == RdLE32w(buf, FRERTableOffset(6) + 16 + (48 * e) + 8)

C17_StreamTablesAgree ==
    (switch_fw # <<>>) =>
        /\ FRERCountOf(switch_fw, 4) = FRERCountOf(switch_fw, 5)
        /\ FRERCountOf(switch_fw, 5) = FRERCountOf(switch_fw, 6)
        /\ \A e \in 0..(FRERCountOf(switch_fw, 4)[2] - 1) :
            /\ FRERStreamOf(switch_fw, 4, e) = FRERStreamOf(switch_fw, 5, e)
            /\ FRERStreamOf(switch_fw, 5, e) = FRERStreamOf(switch_fw, 6, e)
            /\ RecoveryWindow(switch_fw, e) = 256
            /\ RecoveryTimeout(switch_fw, e) = W(100000)
            /\ \A f \in 0..(e - 1) : \A i \in 4..6 :
                   FRERStreamOf(switch_fw, i, f) # FRERStreamOf(switch_fw, i, e)

C17_Witness ==
    /\ switch_fw # <<>>
    /\ FRERCountOf(switch_fw, 6) = W(16)
    /\ FRERStreamOf(switch_fw, 6, 15) = 15
    /\ RecoveryWindow(switch_fw, 15) = 256

(***************************************************************************)
(* C18: every switch-configuration builder returns a blob of exactly 2236  *)
(* bytes for every input: create_goldvip_switch_firmware,                  *)
(* generate_complete_firmware, generate_configuration, and                 *)
(* create_switch_config for an original file of any length (a call that    *)
(* raises returns nothing).                                                *)
(***************************************************************************)
Returned(ret) == (ret # <<>>) /\ (ret # <<-1>>)

C18_BlobIs2236Bytes ==
    /\ Returned(goldvip_ret) => (Len(goldvip_ret) = SWITCH_CONFIG_SIZE)
    /\ Returned(fw_ret) => (Len(fw_ret) = SWITCH_CONFIG_SIZE)
    /\ Returned(proper_ret) => (Len(proper_ret) = SWITCH_CONFIG_SIZE)
    /\ Returned(fix_ret) => (Len(fix_ret) = SWITCH_CONFIG_SIZE)

(***************************************************************************)
(* C19: a table whose table_id get_table_name does not know never stops    *)
(* the walk: the walk does not end in front of such a table, and after     *)
(* reporting one it goes on exactly 16 + entry_count * entry_size bytes    *)
(* further, for every unrecognized table_id value.                         *)
(***************************************************************************)
\* the keys of table_names in get_table_name
table_names == {0, 5, 6, 7, 8, 9, 10, 11, 12, 13, 14, 16, 17, 18, 19, 32, 33, 34, 35, 36, 37}

\* get_table_name(table_id) is a name, not "Unknown (0x..)"
known_table(table_id) == (table_id[1] = 0) /\ (table_id[2] \in table_names)

WalkOver == an_pc \in {"frer", "done", "crashed"}

\* the walk is over and left a whole table header unread at an_offset
TableLeftUnread == WalkOver /\ (an_offset < Len(an_data) - 16)

C19_UnknownTableSteppedOver ==
    /\ TableLeftUnread => known_table(table_header_at(an_data, an_offset).table_id)
    /\ \A i \in 1..(Len(an_tables) - 1) :
           ~known_table(an_tables[i].table_id) =>
               (an_tables[i + 1].offset = an_tables[i].offset + table_size(an_tables[i]))

(***************************************************************************)
(* C20: the switch blob generate_complete_firmware returns does not depend *)
(* on when the build runs: a returned blob is byte-identical to the blob a *)
(* build at any other time returns.                                        *)
(***************************************************************************)
BlobBuiltAt(now) == returned_switch_fw(assemble_switch_fw(now))

C20_BlobIndependentOfTime ==
    (fw_ret # <<>>) => \A now \in Timestamps : fw_ret = BlobBuiltAt(now)

(***************************************************************************)
(* C21: the binary fix_goldvip_crc saves has at bytes[12:16] the value     *)
(* calculate_sja1110_crc computes for that saved binary, whether or not    *)
(* the reference GoldVIP binary is present.                                *)
(***************************************************************************)
StoredCrc(blob) == RdLE32w(blob, 12)

C21_SavedCrcIsCalculated ==
    (fixed_file # NoFile) => (StoredCrc(fixed_file) = calculate_sja1110_crc(fixed_file))

(***************************************************************************)
(* C25: enable_frer_in_goldvip writes a blob of the length of the GoldVIP  *)
(* binary, with the device-id bytes 0..3 unchanged, config1 the old        *)
(* config1 with only bit 7 added, config2 the old config2 with only bits   *)
(* 16 and 17 added, and bytes[12:16] the CRC32 of its bytes[16:] as they   *)
(* are after all other modifications.                                      *)
(***************************************************************************)
\* v with bit b set, v a 16-bit half
SetBit(v, b) == IF HasBit(v, b) THEN v ELSE v + (2 ^ b)

Config1(blob) == RdLE32w(blob, 4)

Config2(blob) == RdLE32w(blob, 8)

C25_EnablerFrame ==
    (frer_file # NoFile) =>
        /\ Len(frer_file) = Len(gold_file)
        /\ Slice(frer_file, 0, 4) = Slice(gold_file, 0, 4)
        /\ Config1(frer_file) = <<Config1(gold_file)[1], SetBit(Config1(gold_file)[2], 7)>>
        /\ Config2(frer_file) = <<SetBit(SetBit(Config2(gold_file)[1], 0), 1), Config2(gold_file)[2]>>
        /\ StoredCrc(frer_file) = zlib_crc32(From(frer_file, 16))

\* a 600-byte binary with free space: the stream configuration was added
C25_Witness ==
    /\ frer_file # NoFile
    /\ Len(frer_file) = 600
    /\ Slice(frer_file, 512, 524) = frer_stream
    /\ ~HasBit(Config1(gold_file)[2], 7)
    /\ HasBit(Config1(frer_file)[2], 7)

(***************************************************************************)
(* C30: the two checksum implementations agree: calculate_sja1110_crc of a *)
(* binary is the CRC32 of its bytes[16:] that enable_frer_in_goldvip       *)
(* stores, so fix_goldvip_crc, run with no reference GoldVIP file, on the  *)
(* binary enable_frer_in_goldvip wrote saves a byte-identical binary.      *)
(***************************************************************************)
CrcImplementationsAgree(data) ==
    (data # NoFile) => (calculate_sja1110_crc(data) = zlib_crc32(From(data, 16)))

C30_FixKeepsEnablerOutput ==
    /\ CrcImplementationsAgree(gold_file)
    /\ CrcImplementationsAgree(frer_file)
    /\ ((fixed_file # NoFile) /\ (gold_ref = NoFile)) => (fixed_file = frer_file)

C30_Witness ==
    /\ fixed_file # NoFile
    /\ gold_ref = NoFile
    /\ Len(fixed_file) = 600
    /\ StoredCrc(fixed_file) # StoredCrc(gold_file)

(***************************************************************************)
(* C22: whenever create_conservative_frer changes at least one port entry, *)
(* the blob it returns has at bytes[12:16] the CRC32 of its own            *)
(* bytes[16:], whatever the input binary holds: the checksum range does    *)
(* not depend on which candidate range matched the input's stored field.   *)
(***************************************************************************)
\* the call returned a blob
Blob(ret) == (ret # <<>>) /\ (ret # NoFile)

CrcValid(blob) == StoredCrc(blob) = zlib_crc32(From(blob, 16))

PortEntryChanged == Blob(min_ret) /\ (From(min_ret, 16) # From(fix_original, 16))

C22_ConservativeCrcValid == PortEntryChanged => CrcValid(min_ret)

(***************************************************************************)
(* C23: create_original_plus_frer_table keeps the original valid: the      *)
(* returned blob has the original's length and the original's header bytes *)
(* 0..15, and if the original's bytes[12:16] are the CRC32 of its          *)
(* bytes[16:] then so are the returned blob's.                             *)
(***************************************************************************)
C23_OriginalPlusKeepsValid ==
    Blob(plus_ret) =>
        /\ Len(plus_ret) = Len(fix_original)
        /\ Slice(plus_ret, 0, 16) = Slice(fix_original, 0, 16)
        /\ ((Len(fix_original) >= 16) /\ CrcValid(fix_original)) => CrcValid(plus_ret)

(***************************************************************************)
(* C24: for every original of at least 16 bytes, verify_config applied to  *)
(* the result of create_switch_config returns True: the device id read     *)
(* little-endian is 0xB700030F and the stored checksum is the CRC32 of     *)
(* bytes[16:], computed after the truncation and every port modification.  *)
(***************************************************************************)
C24_FinalFixVerifies ==
    ((Len(fix_original) >= 16) /\ Blob(fix_ret)) =>
        /\ RdLE32w(fix_ret, 0) = SJA1110_HARDWARE_ID
        /\ CrcValid(fix_ret)
        /\ fix_verify \in {"none", "True"}

\* an original longer than 2236 bytes with a wrong device id and a port
\* record that was modified: cut, fixed and verified
C24_Witness ==
    /\ Len(fix_original) > SWITCH_CONFIG_SIZE
    /\ RdLE32w(fix_original, 0) # SJA1110_HARDWARE_ID
    /\ Blob(fix_ret)
    /\ Len(fix_ret) = SWITCH_CONFIG_SIZE
    /\ RdLE32w(fix_ret, 20) # RdLE32w(fix_original, 20)
    /\ fix_verify = "True"

(***************************************************************************)
(* C26: fix_switch_firmware changes only the device id: for every input of *)
(* at least 4 bytes the output has the same length, bytes 0..3 are         *)
(* B7 00 03 0F (little-endian 0x0f0300b7, which verify_fixes accepts),     *)
(* every byte from offset 4 on is unchanged, and a stored checksum that    *)
(* was valid over bytes[16:] stays valid.                                  *)
(***************************************************************************)
C26_OnlyDeviceIdChanges ==
    ((s32g_ret # <<>>) /\ (Len(s32g_in) >= 4)) =>
        /\ s32g_ret # NoFile
        /\ Len(s32g_ret) = Len(s32g_in)
        /\ Slice(s32g_ret, 0, 4) = <<183, 0, 3, 15>>
        /\ verify_fixes(s32g_ret)
        /\ From(s32g_ret, 4) = From(s32g_in, 4)
        /\ ((Len(s32g_in) >= 16) /\ CrcValid(s32g_in)) => CrcValid(s32g_ret)

\* a binary with a valid checksum and another device id went through
C26_Witness ==
    /\ Blob(s32g_ret)
    /\ Len(s32g_in) >= 16
    /\ CrcValid(s32g_in)
    /\ Slice(s32g_in, 0, 4) # <<183, 0, 3, 15>>
    /\ s32g_ret # s32g_in

(***************************************************************************)
(* C27: on one FRERTester the k-th call of create_frer_frame (k = 0, 1,    *)
(* ...) puts sequence number k mod 65536 into the R-TAG at frame bytes     *)
(* 16..17, seq_num stays within 0..65535, and the sequence number          *)
(* verify_replication reports for the frame it just built (seq_num - 1)    *)
(* is the number inside that frame, also across the wrap.                  *)
(***************************************************************************)
FrameSeq(frame) == RdBE16(frame, 16)

C27_SequenceNumbers ==
    /\ seq_num \in 0..65535
    /\ (test_frame # <<>>) => (FrameSeq(test_frame) = (calls - 1) % 65536)
    /\ (shown_seq # <<>>) => (shown_seq[1] = FrameSeq(test_frame))

(***************************************************************************)
(* C28: on a blob built by generate_complete_firmware, analyze_frer_tables *)
(* reports a FRER table only at an offset where a table header of that     *)
(* kind begins, and reports each of the tables 0x20, 0x23, 0x25 exactly    *)
(* once: a header or entry word that merely has one of these values is     *)
(* never reported as a table.                                              *)
(***************************************************************************)
FRERKinds == {TABLE_FRER_STREAM_IDENT, TABLE_FRER_SEQUENCE_ENCODE, TABLE_FRER_SEQUENCE_RECOVERY}

ScanOver == an_pc \in {"done", "crashed"}

\* report k of the scan is for a table the builder put at that offset
ReportedAtHeader(k) ==
    \E i \in 4..6 :
        /\ an_found[k].offset = FRERTableOffset(i)
        /\ W(an_found[k].table_id) = FRERTableIdAt(an_data, i)

ReportsOf(id) == {k \in 1..Len(an_found) : an_found[k].table_id = id}

C28_ScanReportsRealTables ==
    (ScanOver /\ (an_data = fw_ret)) =>
        /\ \A k \in 1..Len(an_found) : ReportedAtHeader(k)
        /\ \A id \in FRERKinds : Cardinality(ReportsOf(id)) = 1

(***************************************************************************)
(* C29: the table walk of analyze_switch_firmware and the scan of          *)
(* analyze_frer_tables terminate for every buffer of at least 20 bytes,    *)
(* whatever entry_count and entry_size the buffer declares (0 and          *)
(* 0xFFFFFFFF included): every pass of the walk that reads a table leaves  *)
(* the offset strictly greater, the scan reports tables at strictly        *)
(* increasing offsets, and the run ends (by returning or by raising).      *)
(***************************************************************************)
WalkAdvances ==
    ((an_pc = "walk") /\ (an_tables' # an_tables)) => (an_offset' > an_offset)

ScanAdvances ==
    (an_pc = "frer") =>
        /\ ScanOver'
        /\ \A k \in 1..(Len(an_found') - 1) : an_found'[k].offset < an_found'[k + 1].offset

C29_WalkAndScanTerminate ==
    /\ [][WalkAdvances /\ ScanAdvances]_vars
    /\ <>ScanOver

\* the run is over and the walk went on past a table that declares
\* 0xFFFFFFFF entries of 0 bytes
C29_Witness ==
    /\ ScanOver
    /\ Len(an_data) >= 20
    /\ Len(an_tables) >= 2
    /\ an_tables[1].entry_count = <<\hFFFF, \hFFFF>>
    /\ an_tables[1].entry_size = <<0, 0>>

====
